---- MODULE Spec2Model ----
(***************************************************************************)
(* A model of mudur, the Pardus / Pisi Linux boot and shutdown             *)
(* orchestrator (bin/mudur.py, bin/mudur_cgroupfs.py).                     *)
(*                                                                         *)
(* The module holds several state machines over one set of variables:      *)
(*   SpecConfig   Config.__init__ / parse_kernel_options                   *)
(*   SpecStop     stop_system (the shutdown unwinder)                      *)
(*   SpecSysinit  main() for argv[1] = "sysinit"                           *)
(* Each specification starts from its own Init and leaves the variables of *)
(* the other machines alone.                                               *)
(***************************************************************************)
EXTENDS Integers, Sequences, FiniteSets, TLC

VARIABLES
    \* ---- configuration resolution (class Config) ----
    cfgFile,      \* /etc/conf.d/mudur: [exists, readable, lines]
    cmdline,      \* /proc/cmdline: [readable, mudur (the args of mudur= tokens)]
    forcefsckFile,\* os.path.exists("/forcefsck")
    livemedia,    \* os.path.exists("/run/pisilinux/livemedia")
    options,      \* CONFIG.options, a function from keys to Python values
    cfgPc,        \* "start" | "resolved" | "ioerror"
    \* ---- stop_system ----
    procMounts,   \* /proc/mounts: sequence of [dev, mp, fstype]
    mtab,         \* /etc/mtab: <<>> until /proc/mounts is copied to it
    mountsRead,   \* what get_fs_entries read from /proc/mounts
    fsEntries,    \* the list get_fs_entries() returned
    umountIdx,    \* how many of its entries the unmount loop has processed
    stopPc,       \* position in stop_system
    cmds,         \* external commands issued so far, in order
    \* ---- sysinit ----
    fstabRoot,    \* the fstab entry for "/": "absent" or its passno field
    sysPc,        \* position in main() for sysinit
    sysBlocked,   \* the external command main() is waiting in ("" if none)
    sysLog,       \* stage procedures entered and commands issued, in order
    \* ---- Cgroupfs (mudur_cgroupfs.py) ----
    cgEnv,        \* what the bootstrap finds: [fstab, kernel, sysfs, cgroups]
    cgMounted,    \* the mountpoints at and below /sys/fs/cgroup
    cgPc,         \* position in Cgroupfs.__init__
    cgControllers,\* self.controllers: subsystem name -> enabled
    cgTodo,       \* the controllers the loop of line 47 has not visited yet
    cgRun,        \* the number of the Cgroupfs() call
    cgBefore,     \* cgMounted when this Cgroupfs() call began
    cgExit,       \* the exit status of the process (0 while it runs)
    cgLog,        \* what the Cgroupfs() calls did, in order
    \* ---- main() for the runlevels default, reboot and shutdown ----
    argv,         \* sys.argv[1] ("" when main() is not modelled)
    mainPc,       \* position in main()
    shouldKexec,  \* what load_kexec_image() returned
    mainLog,      \* what the default runlevel did, in order
    \* ---- set_hostname ----
    hostFile,     \* /etc/env.d/01hostname: its text, or NoFile
    hostBefore,   \* the file as the last set_hostname() call found it
    kernelHost,   \* the hostname the kernel has
    hostSet,      \* the host the last set_hostname() call handed to hostname
    hostWrote,    \* whether that call wrote the file
    hostPc,       \* "idle" | "start" | "done"
    hostBoots,    \* the number of boots so far
    \* ---- what start_services and load_kexec_image find ----
    svcBus,       \* the services the service manager lists on the bus
    svcEnabled,   \* os.listdir("/etc/mudur/services/enabled")
    svcConditional,\* os.listdir("/etc/mudur/services/conditional")
    grubDefault,  \* /boot/grub/default: NoFile, or the integer it holds
    kexecTool,    \* os.path.exists("/usr/sbin/kexec")
    kexecConf,    \* /etc/conf.d/kexec: NoFile, or <<KEXEC_REBOOT, KEXEC_SHUTDOWN,
                  \* KERNEL_IMAGE, INITRD_IMAGE, APPEND_CMDLINE_<stage>,
                  \* OVERWRITE_CMDLINE_<stage>>> ("None" for a key not set)
    kexecLoaded,  \* /sys/kernel/kexec_loaded after kexec --load
    bootDir,      \* <<whether /boot/latest-kernel exists, whether
                  \* /boot/latest-initramfs exists, the suffix of os.uname()[2]>>
    \* ---- what mount_root_filesystem finds ----
    fstabOthers,  \* the mountpoints other than / that /etc/fstab has an entry for
    mtabLock,     \* /etc/mtab~: "none", "stale", or "stuck" (unlink fails)
    mtabWritable, \* whether /etc/mtab can be written
    \* ---- what set_disk_parameters finds ----
    hdparmFile,   \* /etc/conf.d/hdparm: <<whether it exists, the dictionary
                  \* load_config makes of it (device key |-> flags)>>
    sysBlock,     \* os.listdir("/sys/block/")
    \* ---- wait_bus ----
    waitLeft,     \* timeout, in poll intervals
    waitTries     \* connect attempts made

cfgVars  == <<cfgFile, cmdline, forcefsckFile, livemedia, cfgPc>>
stopVars == <<procMounts, mtab, mountsRead, fsEntries, umountIdx, stopPc, cmds>>
sysVars  == <<fstabRoot, sysPc, sysBlocked, sysLog>>
cgVars   == <<cgEnv, cgMounted, cgPc, cgControllers, cgTodo, cgRun, cgBefore,
              cgExit, cgLog>>
mainVars == <<argv, mainPc, shouldKexec, mainLog>>
hostVars == <<hostFile, hostBefore, kernelHost, hostSet, hostWrote, hostPc,
              hostBoots>>
inVars   == <<svcBus, svcEnabled, svcConditional, grubDefault, kexecTool,
              kexecConf, kexecLoaded, bootDir, fstabOthers, mtabLock,
              mtabWritable, hdparmFile, sysBlock>>
waitVars == <<waitLeft, waitTries>>
vars     == <<cfgVars, options, stopVars, sysVars, cgVars, mainVars, hostVars, inVars, waitVars>>

-----------------------------------------------------------------------------
(* Bounds of the model.                                                    *)

MaxCfgLines == 2
MaxArgs     == 2
MaxMounts   == 2
MaxControllers == 2
MaxRuns     == 2

-----------------------------------------------------------------------------
(* Python values: str, bool and None are kept apart, as a dict value may   *)
(* be any of them ("yes" is not True).                                     *)

S(s)    == [t |-> "str",  v |-> s]
PyTrue  == [t |-> "bool", v |-> "True"]
PyFalse == [t |-> "bool", v |-> "False"]
PyNone  == [t |-> "none", v |-> ""]
PyBool(b) == IF b THEN PyTrue ELSE PyFalse

\* Python truth value of a value: non-empty string, True.
Truthy(x) == \/ (x.t = "str" /\ x.v # "")
             \/ x = PyTrue

SeqsUpTo(pool, n) == UNION { [1..k -> pool] : k \in 0..n }

IsInjective(seq) == \A i, j \in DOMAIN seq : seq[i] = seq[j] => i = j

\* The sequences of at most n lines of pool, no line twice.
DistinctSeqsUpTo(pool, n) == { u \in SeqsUpTo(pool, n) : IsInjective(u) }

-----------------------------------------------------------------------------
(* Config resolution: load_config, get_kernel_option, class Config.        *)

\* d with d[k] = v (a dict assignment).
Put(d, k, v) == [x \in (DOMAIN d) \cup {k} |-> IF x = k THEN v ELSE d[x]]

EmptyDict == [x \in {} |-> PyNone]

\* Config.__init__: the default options for mudur=.
DefaultOptions ==
    [k \in {"language", "clock", "clock_adjust", "tty_number", "lxc_guest",
            "keymap", "debug", "live", "safe", "forcefsck", "head_start",
            "services"} |->
        CASE k = "language"     -> S("en")
          [] k = "clock"        -> S("local")
          [] k = "clock_adjust" -> S("no")
          [] k = "tty_number"   -> S("6")
          [] k = "lxc_guest"    -> S("no")
          [] k = "keymap"       -> PyNone
          [] k = "debug"        -> PyTrue
          [] k = "live"         -> PyFalse
          [] k = "safe"         -> PyFalse
          [] k = "forcefsck"    -> PyFalse
          [] k = "head_start"   -> S("")
          [] k = "services"     -> S("")]

\* LANGUAGES: language code -> keymap (the other columns are not read by
\* Config).
LanguageKeymap ==
    [l \in {"ca", "de", "en", "es", "fr", "hu", "it", "nl", "pl", "pt_BR",
            "ru", "sv", "tr"} |->
        CASE l = "ca"    -> "es"
          [] l = "de"    -> "de"
          [] l = "en"    -> "us"
          [] l = "es"    -> "es"
          [] l = "fr"    -> "fr"
          [] l = "hu"    -> "hu"
          [] l = "it"    -> "it"
          [] l = "nl"    -> "nl"
          [] l = "pl"    -> "pl"
          [] l = "pt_BR" -> "br-abnt2"
          [] l = "ru"    -> "ru"
          [] l = "sv"    -> "sv-latin1"
          [] l = "tr"    -> "trq"]

\* LANGUAGES.has_key(lang) for a Python value lang.
HasLanguage(lang) == lang.t = "str" /\ lang.v \in DOMAIN LanguageKeymap

\* A line of a key=value file.  kind "kv" is  key = <quote>val<quote>,
\* "comment" is the same text behind a leading #, "noeq" a line without =.
CfgLine(kind, key, quote, val) ==
    [kind |-> kind, key |-> key, quote |-> quote, val |-> val]

\* load_config: the lines holding "=" and not starting with "#", split at
\* the first "=", both sides stripped, quotes stripped off the value; a later
\* line overrides an earlier one.
RECURSIVE LoadConfigInto(_, _)
LoadConfigInto(data, lines) ==
    IF lines = <<>> THEN data
    ELSE LET l == Head(lines)
         IN  LoadConfigInto(IF l.kind = "kv" THEN Put(data, l.key, S(l.val))
                                              ELSE data,
                            Tail(lines))

load_config(lines) == LoadConfigInto(EmptyDict, lines)

\* An argument of a mudur= token: key:val when colon, else the bare key.
Arg(key, colon, val) == [key |-> key, val |-> val, colon |-> colon]

\* get_kernel_option("mudur"): a dict from the keys to the text after the
\* colon ("" for a bare key); {} when /proc/cmdline cannot be read.  The
\* values are plain strings.
RECURSIVE KernelArgsInto(_, _)
KernelArgsInto(args, rest) ==
    IF rest = <<>> THEN args
    ELSE LET a == Head(rest)
         IN  KernelArgsInto(
                 [x \in (DOMAIN args) \cup {a.key} |->
                     IF x = a.key THEN (IF a.colon THEN a.val ELSE "")
                                  ELSE args[x]],
                 Tail(rest))

get_kernel_option(cmd) ==
    IF cmd.readable THEN KernelArgsInto([x \in {} |-> ""], cmd.mudur)
                    ELSE [x \in {} |-> ""]

\* The strings s with  s in ("thin")  true: ("thin") is the string "thin",
\* so the test is a substring test.
InThin == {"", "t", "h", "i", "n", "th", "hi", "in", "thi", "hin", "thin"}

\* Config.parse_kernel_options, lines 369-376: live, then the mudur= keys.
FillKernelOptions(opts, kopts, lm) ==
    LET withLive == Put(opts, "live", PyBool("thin" \in DOMAIN kopts \/ lm))
        keys     == (DOMAIN kopts) \ InThin
    IN  [x \in (DOMAIN withLive) \cup keys |->
            IF x \in keys
            THEN (IF kopts[x] # "" THEN S(kopts[x]) ELSE PyTrue)
            ELSE withLive[x]]

\* The normalization with Turkish taken for an unknown language.
NormalizeOptionsTurkish(opts) ==
    LET known == HasLanguage(opts["language"])
        lang  == IF known THEN opts["language"].v ELSE "tr"
        o1    == IF known THEN opts ELSE Put(opts, "language", S(lang))
    IN  IF Truthy(o1["keymap"]) THEN o1
        ELSE Put(o1, "keymap", S(LanguageKeymap[lang]))

\* Config.parse_kernel_options, lines 378-392: language and keymap.
NormalizeOptions(opts) ==
    LET known == HasLanguage(opts["language"])
        lang  == IF known THEN opts["language"].v ELSE "en"
        o1    == IF known THEN opts ELSE Put(opts, "language", S(lang))
    IN  IF Truthy(o1["keymap"]) THEN o1
        ELSE Put(o1, "keymap", S(LanguageKeymap[lang]))

parse_kernel_options(opts, cmd, lm) ==
    NormalizeOptions(FillKernelOptions(opts, get_kernel_option(cmd), lm))

\* The config file applied after the kernel options.
ConfigOptionsFileLast(file, cmd, sentinel, lm) ==
    LET o1 == parse_kernel_options(
                  Put(DefaultOptions, "forcefsck", PyBool(sentinel)), cmd, lm)
    IN  IF file.exists
        THEN [x \in (DOMAIN o1) \cup DOMAIN load_config(file.lines) |->
                 IF x \in DOMAIN load_config(file.lines)
                 THEN load_config(file.lines)[x] ELSE o1[x]]
        ELSE o1

\* The sentinel test of line 359 left out.
ConfigOptionsNoSentinel(file, cmd, sentinel, lm) ==
    LET loaded == IF file.exists THEN load_config(file.lines) ELSE EmptyDict
        o1 == [x \in (DOMAIN DefaultOptions) \cup DOMAIN loaded |->
                 IF x \in DOMAIN loaded THEN loaded[x] ELSE DefaultOptions[x]]
    IN  parse_kernel_options(o1, cmd, lm)

\* Config.__init__ for a config file that is absent or readable: defaults,
\* options.update(load_config(...)), the forcefsck sentinel, the kernel
\* options.
ConfigOptions(file, cmd, sentinel, lm) ==
    LET loaded == IF file.exists THEN load_config(file.lines) ELSE EmptyDict
        o1 == [x \in (DOMAIN DefaultOptions) \cup DOMAIN loaded |->
                 IF x \in DOMAIN loaded THEN loaded[x] ELSE DefaultOptions[x]]
        o2 == Put(o1, "forcefsck", PyBool(sentinel))
    IN  parse_kernel_options(o2, cmd, lm)

\* CONFIG.get(key): the value, or None (after a message) for a missing key.
Get(opts, key) == IF key \in DOMAIN opts THEN opts[key] ELSE PyNone

\* The lines and mudur= arguments the model draws its inputs from.
CfgLinePool ==
    { CfgLine("kv", "clock", "", "UTC"),
      CfgLine("kv", "language", "\"", "xx"),
      CfgLine("kv", "forcefsck", "", "yes"),
      CfgLine("kv", "live", "", "yes"),
      CfgLine("kv", "lxc_guest", "'", "yes"),
      CfgLine("kv", "keymap", "", "trq"),
      CfgLine("comment", "clock", "", "UTC") }

ArgPool ==
    { Arg("clock", TRUE, "local"),
      Arg("forcefsck", FALSE, ""),
      Arg("thin", FALSE, ""),
      Arg("language", TRUE, "tr"),
      Arg("lxc_guest", FALSE, ""),
      Arg("in", TRUE, "x"),
      Arg("keymap", TRUE, "") }

CfgFiles ==
    { [lines |-> <<>>, readable |-> FALSE, exists |-> FALSE],
      [lines |-> <<>>, readable |-> FALSE, exists |-> TRUE] }
    \cup { [lines |-> ls, readable |-> TRUE, exists |-> TRUE] :
              ls \in DistinctSeqsUpTo(CfgLinePool, MaxCfgLines) }

Cmdlines ==
    { [readable |-> FALSE, mudur |-> <<>>] }
    \cup { [readable |-> TRUE, mudur |-> as] :
              as \in DistinctSeqsUpTo(ArgPool, MaxArgs) }

\* CONFIG = Config() at import: an unreadable config file makes open() raise
\* IOError out of load_config, which nothing catches.
ConfigInit ==
    /\ cfgPc = "start"
    /\ IF cfgFile.exists /\ ~cfgFile.readable
       THEN /\ cfgPc' = "ioerror"
            /\ UNCHANGED options
       ELSE /\ cfgPc' = "resolved"
            /\ options' = ConfigOptions(cfgFile, cmdline, forcefsckFile,
                                        livemedia)
    /\ UNCHANGED <<cfgFile, cmdline, forcefsckFile, livemedia>>
    /\ UNCHANGED <<stopVars, sysVars, cgVars, mainVars, hostVars, inVars, waitVars>>


-----------------------------------------------------------------------------
(* Strings that are compared or sorted are sequences of one-character      *)
(* strings; Chars lists the characters used, in ASCII order.               *)

Chars == <<"-", "/", "a", "d", "e", "m", "n", "s", "t", "x">>

Ord(c) == CHOOSE i \in 1..Len(Chars) : Chars[i] = c

\* Python's a < b on str: the first differing character decides, a proper
\* prefix is smaller.
RECURSIVE StrLess(_, _)
StrLess(a, b) ==
    IF b = <<>> THEN FALSE
    ELSE IF a = <<>> THEN TRUE
    ELSE IF Head(a) # Head(b) THEN Ord(Head(a)) < Ord(Head(b))
    ELSE StrLess(Tail(a), Tail(b))

IsPrefix(a, b) == Len(a) <= Len(b) /\ SubSeq(b, 1, Len(a)) = a

P_root   == <<"/">>
P_data   == <<"/", "d", "a", "t", "a">>
P_nested == <<"/", "d", "a", "t", "a", "/", "n", "e", "s", "t", "e", "d">>
P_mnt    == <<"/", "m", "n", "t">>
P_datax  == <<"/", "d", "a", "t", "a", "-", "x">>
P_mntn   == <<"/", "m", "n", "t", "/", "n">>
P_mntt   == <<"/", "m", "n", "t", "/", "t">>
P_mntx   == <<"/", "m", "n", "t", "/", "x">>
NoPath   == <<>>

-----------------------------------------------------------------------------
(* /proc/mounts and the helpers of stop_system.                            *)

\* A line of /proc/mounts: device, mountpoint, filesystem type (the option,
\* dump and passno fields are not read).
Mount(dev, mp, fstype) == [dev |-> dev, mp |-> mp, fstype |-> fstype]

\* load_file drops the lines that start with "#": here, the lines whose
\* device field starts with "#".
IsCommentLine(e) == e.dev \in {"#sshfs"}

RECURSIVE SelectSeq2(_, _)
SelectSeq2(seq, keep) ==
    IF seq = <<>> THEN <<>>
    ELSE IF Head(seq) \in keep THEN <<Head(seq)>> \o SelectSeq2(Tail(seq), keep)
    ELSE SelectSeq2(Tail(seq), keep)

Range(seq) == { seq[i] : i \in DOMAIN seq }

load_file(lines) == SelectSeq2(lines, { e \in Range(lines) : ~IsCommentLine(e) })

\* get_fs_entries: the API filesystems that are ignored.
Vfs == {"proc", "devpts", "sysfs", "devtmpfs", "squashfs", "tmpfs", "rootfs",
        "debugfs", "cgroup", "configfs"}

\* The filter of get_fs_entries with the test of the mountpoint left out.
KeepEntryAnyMountpoint(e) == e.fstype \notin Vfs /\ e.dev # "none"

\* get_fs_entries, lines 1248-1249 (every line of the model has more than two
\* fields).
KeepEntry(e) == e.fstype \notin Vfs /\ e.dev # "none" /\ e.mp # P_root

\* list.sort(key=mountpoint, reverse=True): a stable sort, the greater
\* mountpoint first; entries with equal mountpoints keep their order.
RECURSIVE InsertDesc(_, _)
InsertDesc(sorted, e) ==
    IF sorted = <<>> THEN <<e>>
    ELSE IF StrLess(Head(sorted).mp, e.mp) THEN <<e>> \o sorted
    ELSE <<Head(sorted)>> \o InsertDesc(Tail(sorted), e)

RECURSIVE SortInto(_, _)
SortInto(sorted, rest) ==
    IF rest = <<>> THEN sorted
    ELSE SortInto(InsertDesc(sorted, Head(rest)), Tail(rest))

\* The sort without reverse=True: the smaller mountpoint first.
RECURSIVE InsertAsc(_, _)
InsertAsc(sorted, e) ==
    IF sorted = <<>> THEN <<e>>
    ELSE IF StrLess(e.mp, Head(sorted).mp) THEN <<e>> \o sorted
    ELSE <<Head(sorted)>> \o InsertAsc(Tail(sorted), e)

RECURSIVE SortAscInto(_, _)
SortAscInto(sorted, rest) ==
    IF rest = <<>> THEN sorted
    ELSE SortAscInto(InsertAsc(sorted, Head(rest)), Tail(rest))

\* The entries sorted by mountpoint, ascending.
SortAscending(entries) == SortAscInto(<<>>, entries)

\* The entries left in the order of /proc/mounts.
SortNone(entries) == entries

\* entries.sort(key=lambda x: x[1], reverse=True)
SortByMountpointDesc(entries) == SortInto(<<>>, entries)

get_fs_entries(table) ==
    LET lines == load_file(table)
    IN  SortByMountpointDesc(
            SelectSeq2(lines, { e \in Range(lines) : KeepEntry(e) }))

\* remount_ro, lines 1256-1262: the first line whose device is not rootfs and
\* whose mountpoint is /.  <<>> stands for rootfs = None.
RECURSIVE FindRoot(_)
FindRoot(lines) ==
    IF lines = <<>> THEN <<>>
    ELSE IF Head(lines).dev # "rootfs" /\ Head(lines).mp = P_root
         THEN <<Head(lines)>>
         ELSE FindRoot(Tail(lines))

\* The kernel's mount table after a successful umount of mp: the entry
\* mounted last at mp is gone.
RECURSIVE RemoveLastAt(_, _)
RemoveLastAt(table, mp) ==
    IF table = <<>> THEN <<>>
    ELSE LET n == Len(table)
         IN  IF table[n].mp = mp THEN SubSeq(table, 1, n - 1)
             ELSE RemoveLastAt(SubSeq(table, 1, n - 1), mp) \o <<table[n]>>

\* An external command (or a sleep) as issued: the command, the service it
\* names (or ""), the path it names (or NoPath), the exit status it gave.
Cmd(c, name, path, rc) == [cmd |-> c, name |-> name, path |-> path, rc |-> rc]

\* The exit statuses the model gives to a command whose status is read.
Statuses == {0, 32}

\* skip_for_lxc_guests: the wrapped function runs only if lxc_guest == "no".
SkippedForGuests(opts) == Get(opts, "lxc_guest") # S("no")

\* /proc/mounts as the model draws it: the lines of the root filesystem (the
\* kernel's rootfs line, the line of the root device, or both), then up to
\* MaxMounts further lines in any order, or the three mounts at /data,
\* /data/nested and /mnt in any order.
RootLines ==
    { << Mount("rootfs", P_root, "rootfs"), Mount("/dev/sda1", P_root, "ext4") >>,
      << Mount("/dev/sda1", P_root, "ext4") >>,
      << Mount("rootfs", P_root, "rootfs") >> }

MountPool ==
    { Mount("/dev/sda2", P_data,   "ext4"),
      Mount("/dev/sda3", P_nested, "ext4"),
      Mount("/dev/sdb1", P_mnt,    "vfat"),
      Mount("/dev/sdb2", P_datax,  "ext4"),
      Mount("tmpfs",     P_mntt,   "tmpfs"),
      Mount("none",      P_mntn,   "usbfs"),
      Mount("#sshfs",    P_mntx,   "fuse") }

DataNestedMnt ==
    { u \in [1..3 -> { Mount("/dev/sda2", P_data,   "ext4"),
                       Mount("/dev/sda3", P_nested, "ext4"),
                       Mount("/dev/sdb1", P_mnt,    "vfat") }] : IsInjective(u) }

MountTables ==
    { r \o t : r \in RootLines,
               t \in DistinctSeqsUpTo(MountPool, MaxMounts) \cup DataNestedMnt }


-----------------------------------------------------------------------------
(* The cgroup bootstrap: class Cgroupfs and class Controller of            *)
(* mudur_cgroupfs.py.  Cgroupfs() is called by mount_tmpfs_run.            *)

\* A line of /etc/fstab as check_fstab reads it: whether line[0] is "#" and
\* what line.find("cgroup") returns (-1 when the text is not in the line).
FstabLine(comment, find) == [comment |-> comment, find |-> find]

\* The line mounts a cgroup filesystem.
IsCgroupMountLine(l) == ~l.comment /\ l.find >= 0

HasCgroupLine(fstab) == \E i \in DOMAIN fstab : IsCgroupMountLine(fstab[i])

\* Cgroupfs.check_fstab: found is set by every non-comment line for which
\* line.find("cgroup") is truthy, that is not 0.
check_fstab(fstab) ==
    \E i \in DOMAIN fstab : ~fstab[i].comment /\ fstab[i].find # 0

\* The test of line 33, self.check_fstab == True: self.check_fstab is the
\* bound method, which is not called and never equals True.
FstabGuardFails(fstab) == FALSE

\* sys.exit(n) as the exit status the parent sees.
ExitStatus(n) == n % 256

\* The root of the hierarchy, /sys/fs/cgroup, in cgMounted and cgLog.
CgRoot == "/sys/fs/cgroup"

\* What a Cgroupfs() call did: a guard evaluated ("guard"), the exit
\* ("exit", with the status), a mountpoint -q test ("test", rc 0 when the
\* path is a mountpoint), a mount command ("mount"), /proc/cgroups read
\* ("read").
CgEv(kind, what, rc) == [kind |-> kind, rc |-> rc, what |-> what, run |-> cgRun]

\* mountpoint with every path taken for no mountpoint.
mountpointNever(path) == FALSE

\* mountpoint(path): True when mountpoint -q path exits with 0.  The paths
\* of Controller.mount are relative to /sys/fs/cgroup.
mountpoint(path) == path \in cgMounted

\* The test of the enabled flag taking every controller.
IsEnabledAlways(enabled) == TRUE

\* Controller.mount, line 19.
IsEnabled(enabled) == enabled = 1

\* The frame of the Cgroupfs steps.
cgOthers == <<cfgVars, options, stopVars, mainVars, hostVars, inVars, waitVars>>

\* Cgroupfs.__init__, lines 32-35.
CgFstabGuard ==
    /\ cgPc = "start"
    /\ cgControllers' = [x \in {} |-> 0]
    /\ IF FstabGuardFails(cgEnv.fstab)
       THEN /\ cgLog' = cgLog \o << CgEv("guard", "check_fstab", 1),
                                   CgEv("exit", "", ExitStatus(-1)) >>
            /\ cgExit' = ExitStatus(-1)
            /\ cgPc' = "exited"
       ELSE /\ cgLog' = Append(cgLog, CgEv("guard", "check_fstab", 0))
            /\ cgPc' = "kernel_support"
            /\ UNCHANGED cgExit
    /\ UNCHANGED <<cgEnv, cgMounted, cgTodo, cgRun, cgBefore>>
    /\ UNCHANGED <<cgOthers, sysVars>>

\* Lines 37-39: kernel_support() is os.path.isfile("/proc/cgroups").
CgKernelSupport ==
    /\ cgPc = "kernel_support"
    /\ IF ~cgEnv.kernel
       THEN /\ cgLog' = cgLog \o << CgEv("guard", "kernel_support", 1),
                                   CgEv("exit", "", ExitStatus(-2)) >>
            /\ cgExit' = ExitStatus(-2)
            /\ cgPc' = "exited"
       ELSE /\ cgLog' = Append(cgLog, CgEv("guard", "kernel_support", 0))
            /\ cgPc' = "check_sysfs"
            /\ UNCHANGED cgExit
    /\ UNCHANGED <<cgEnv, cgMounted, cgControllers, cgTodo, cgRun, cgBefore>>
    /\ UNCHANGED <<cgOthers, sysVars>>

\* Lines 41-43: check_sysfs() is os.path.isdir("/sys/fs/cgroup").
CgCheckSysfs ==
    /\ cgPc = "check_sysfs"
    /\ IF ~cgEnv.sysfs
       THEN /\ cgLog' = cgLog \o << CgEv("guard", "check_sysfs", 1),
                                   CgEv("exit", "", ExitStatus(-3)) >>
            /\ cgExit' = ExitStatus(-3)
            /\ cgPc' = "exited"
       ELSE /\ cgLog' = Append(cgLog, CgEv("guard", "check_sysfs", 0))
            /\ cgPc' = "mount_cgroup"
            /\ UNCHANGED cgExit
    /\ UNCHANGED <<cgEnv, cgMounted, cgControllers, cgTodo, cgRun, cgBefore>>
    /\ UNCHANGED <<cgOthers, sysVars>>

\* mount_cgroup: the tmpfs is mounted unless /sys/fs/cgroup is a mountpoint;
\* the status of the mount command is not looked at.  A tmpfs mounted there
\* covers what was mounted below.
CgMountCgroup ==
    /\ cgPc = "mount_cgroup"
    /\ IF mountpoint(CgRoot) = FALSE
       THEN \E rc \in Statuses :
              /\ cgLog' = cgLog \o << CgEv("test", CgRoot, 1),
                                     CgEv("mount", CgRoot, rc) >>
              /\ cgMounted' = IF rc = 0 THEN {CgRoot} ELSE cgMounted
       ELSE /\ cgLog' = Append(cgLog, CgEv("test", CgRoot, 0))
            /\ UNCHANGED cgMounted
    /\ cgPc' = "find_controllers"
    /\ UNCHANGED <<cgEnv, cgControllers, cgTodo, cgRun, cgBefore, cgExit>>
    /\ UNCHANGED <<cgOthers, sysVars>>

\* find_controllers: one Controller for every line of /proc/cgroups that is
\* not a comment.
CgFindControllers ==
    /\ cgPc = "find_controllers"
    /\ cgControllers' = cgEnv.cgroups
    /\ cgTodo' = DOMAIN cgEnv.cgroups
    /\ cgLog' = Append(cgLog, CgEv("read", "/proc/cgroups", 0))
    /\ cgPc' = "mount_controllers"
    /\ UNCHANGED <<cgEnv, cgMounted, cgRun, cgBefore, cgExit>>
    /\ UNCHANGED <<cgOthers, sysVars>>

\* One turn of the loop of lines 47-48, c.mount() for a controller the loop
\* has not visited (a dict gives its items in no order the code fixes).
\* mkdir -p and mount fail when /sys/fs/cgroup is not a tmpfs: sysfs takes no
\* directories.
CgControllerMount ==
    /\ cgPc = "mount_controllers"
    /\ \E c \in cgTodo :
          /\ cgTodo' = cgTodo \ {c}
          /\ IF IsEnabled(cgControllers[c])
             THEN IF mountpoint(c) = FALSE
                  THEN \E rc \in Statuses :
                         /\ (CgRoot \notin cgMounted) => rc # 0
                         /\ cgLog' = cgLog \o << CgEv("test", c, 1),
                                                CgEv("mount", c, rc) >>
                         /\ cgMounted' = IF rc = 0 THEN cgMounted \cup {c}
                                         ELSE cgMounted
                  ELSE /\ cgLog' = Append(cgLog, CgEv("test", c, 0))
                       /\ UNCHANGED cgMounted
             ELSE UNCHANGED <<cgLog, cgMounted>>
    /\ UNCHANGED <<cgEnv, cgPc, cgControllers, cgRun, cgBefore, cgExit>>
    /\ UNCHANGED <<cgOthers, sysVars>>

\* The loop is over and Cgroupfs.__init__ returns.
CgInitReturns ==
    /\ cgPc = "mount_controllers"
    /\ cgTodo = {}
    /\ cgPc' = "finished"
    /\ UNCHANGED <<cgEnv, cgMounted, cgControllers, cgTodo, cgRun, cgBefore,
                   cgExit, cgLog>>
    /\ UNCHANGED <<cgOthers, sysVars>>

\* Cgroupfs() is called once more (the next sysinit pass).
CgroupfsAgain ==
    /\ cgPc = "finished"
    /\ sysPc = "idle"
    /\ cgRun < MaxRuns
    /\ cgRun' = cgRun + 1
    /\ cgBefore' = cgMounted
    /\ cgPc' = "start"
    /\ UNCHANGED <<cgEnv, cgMounted, cgControllers, cgTodo, cgExit, cgLog>>
    /\ UNCHANGED <<cgOthers, sysVars>>

CgSteps ==
    \/ CgFstabGuard
    \/ CgKernelSupport
    \/ CgCheckSysfs
    \/ CgMountCgroup
    \/ CgFindControllers
    \/ CgControllerMount
    \/ CgInitReturns

\* The subsystems /proc/cgroups may list, and the reports of at most
\* MaxControllers of them: subsystem name -> enabled.
Subsystems == {"cpu", "memory", "freezer"}

CgroupReports ==
    UNION { [names -> {0, 1}] :
               names \in { n \in SUBSET Subsystems : Cardinality(n) <= MaxControllers } }

\* The fstabs: without a cgroup line, with one ("cgroup /sys/fs/cgroup ..."
\* has the text at 0, "none /sys/fs/cgroup cgroup ..." further on), with one
\* behind a "#".
Fstabs ==
    { << FstabLine(FALSE, -1) >>,
      << FstabLine(FALSE, -1), FstabLine(FALSE, 0) >>,
      << FstabLine(FALSE, -1), FstabLine(FALSE, 20) >>,
      << FstabLine(TRUE, 2), FstabLine(FALSE, -1) >> }

\* What the bootstrap may find: controllers are mounted only below a mounted
\* root, and only with /proc/cgroups and the directory there.
CgEnvs ==
    [fstab : Fstabs, kernel : BOOLEAN, sysfs : BOOLEAN, cgroups : CgroupReports]

CgMountedFor(env) ==
    IF env.kernel /\ env.sysfs
    THEN { {} } \cup { {CgRoot} \cup m : m \in SUBSET DOMAIN env.cgroups }
    ELSE { {} }

\* The variables of a bootstrap that is not running.
CgIdle ==
    /\ cgEnv = [fstab |-> <<>>, kernel |-> FALSE, sysfs |-> FALSE,
                cgroups |-> [x \in {} |-> 0]]
    /\ cgMounted = {}
    /\ cgPc = "idle"
    /\ cgControllers = [x \in {} |-> 0]
    /\ cgTodo = {}
    /\ cgRun = 0
    /\ cgBefore = {}
    /\ cgExit = 0
    /\ cgLog = <<>>


-----------------------------------------------------------------------------
(* stop_system.                                                            *)

\* The service lists the service bus may report to stop_services.
BusServiceLists == { <<"rsyslog", "sshd">> }

RECURSIVE StopCmds(_)
StopCmds(services) ==
    IF services = <<>> THEN <<>>
    ELSE <<Cmd("service stop", Head(services), NoPath, 0)>>
         \o StopCmds(Tail(services))

\* stop_services: return when the bus cannot be reached, else stop every
\* service the bus lists.
StopServices ==
    /\ stopPc = "stop_services"
    /\ \/ UNCHANGED cmds
       \/ \E services \in BusServiceLists : cmds' = cmds \o StopCmds(services)
    /\ stopPc' = "stop_dbus"
    /\ UNCHANGED <<procMounts, mtab, mountsRead, fsEntries, umountIdx>>
    /\ UNCHANGED <<cfgVars, options, sysVars, cgVars, mainVars, hostVars, inVars, waitVars>>

StopDbus ==
    /\ stopPc = "stop_dbus"
    /\ cmds' = Append(cmds, Cmd("start-stop-daemon --stop dbus", "", NoPath, 0))
    /\ stopPc' = "stop_udev"
    /\ UNCHANGED <<procMounts, mtab, mountsRead, fsEntries, umountIdx>>
    /\ UNCHANGED <<cfgVars, options, sysVars, cgVars, mainVars, hostVars, inVars, waitVars>>

StopUdev ==
    /\ stopPc = "stop_udev"
    /\ cmds' = IF SkippedForGuests(options) THEN cmds
               ELSE Append(cmds,
                           Cmd("start-stop-daemon --stop udevd", "", NoPath, 0))
    /\ stopPc' = "save_clock"
    /\ UNCHANGED <<procMounts, mtab, mountsRead, fsEntries, umountIdx>>
    /\ UNCHANGED <<cfgVars, options, sysVars, cgVars, mainVars, hostVars, inVars, waitVars>>

\* The option with --utc for everything but local.
ClockOptionUtcUnlessLocal(opts) ==
    IF Get(opts, "clock") = S("local") THEN "--localtime" ELSE "--utc"

\* save_clock and set_clock, lines 1203-1205 and 1228-1230: the option
\* handed to hwclock.
ClockOption(opts) ==
    IF Get(opts, "clock") # S("UTC") THEN "--localtime" ELSE "--utc"

SaveClock ==
    /\ stopPc = "save_clock"
    /\ cmds' = IF SkippedForGuests(options) \/ Truthy(Get(options, "live"))
               THEN cmds
               ELSE Append(cmds, Cmd("hwclock --systohc", ClockOption(options),
                                     NoPath, 0))
    /\ stopPc' = "disable_swap"
    /\ UNCHANGED <<procMounts, mtab, mountsRead, fsEntries, umountIdx>>
    /\ UNCHANGED <<cfgVars, options, sysVars, cgVars, mainVars, hostVars, inVars, waitVars>>

\* disable_swap with swapoff before the tmpfs unmount.
DisableSwapCmdsSwapoffFirst ==
    << Cmd("swapoff -a", "", NoPath, 0), Cmd("umount -at tmpfs", "", NoPath, 0) >>

\* The two commands of disable_swap, lines 1133 and 1136.
DisableSwapCmds ==
    << Cmd("umount -at tmpfs", "", NoPath, 0), Cmd("swapoff -a", "", NoPath, 0) >>

\* disable_swap: umount -at tmpfs takes the tmpfs filesystems off the mount
\* table (all that are not root, or none when they are busy), then swapoff.
DisableSwap ==
    /\ stopPc = "disable_swap"
    /\ IF SkippedForGuests(options)
       THEN UNCHANGED <<cmds, procMounts>>
       ELSE /\ cmds' = cmds \o DisableSwapCmds
            /\ \/ UNCHANGED procMounts
               \/ procMounts' = SelectSeq2(procMounts,
                      { e \in Range(procMounts) :
                            e.fstype # "tmpfs" \/ e.mp = P_root })
    /\ stopPc' = "halt_w"
    /\ UNCHANGED <<mtab, mountsRead, fsEntries, umountIdx>>
    /\ UNCHANGED <<cfgVars, options, sysVars, cgVars, mainVars, hostVars, inVars, waitVars>>

\* run("/sbin/halt", "-w"), then the lxc_guest test of line 1286 and, outside
\* guest mode, get_fs_entries().
HaltRecord ==
    /\ stopPc = "halt_w"
    /\ cmds' = Append(cmds, Cmd("halt -w", "", NoPath, 0))
    /\ IF Get(options, "lxc_guest") # S("yes")
       THEN /\ mountsRead' = procMounts
            /\ fsEntries' = get_fs_entries(procMounts)
            /\ stopPc' = "unmount"
       ELSE /\ UNCHANGED <<mountsRead, fsEntries>>
            /\ stopPc' = "done"
    /\ UNCHANGED <<procMounts, mtab, umountIdx>>
    /\ UNCHANGED <<cfgVars, options, sysVars, cgVars, mainVars, hostVars, inVars, waitVars>>

\* The loop body with the kill and the forced unmount for every entry.
UnmountCmdsAlwaysKill(mp, rc, rcForce) ==
    << Cmd("umount", "", mp, rc),
       Cmd("fuser -k -9 -m", "", mp, 0),
       Cmd("sleep", "", NoPath, 0),
       Cmd("umount -f -r", "", mp, rcForce) >>

\* Lines 1290-1294 for one entry: umount; when that fails fuser -k, a sleep
\* and umount -f -r.
UnmountCmds(mp, rc, rcForce) ==
    IF rc # 0
    THEN << Cmd("umount", "", mp, rc),
            Cmd("fuser -k -9 -m", "", mp, 0),
            Cmd("sleep", "", NoPath, 0),
            Cmd("umount -f -r", "", mp, rcForce) >>
    ELSE << Cmd("umount", "", mp, rc) >>

UnmountEntry ==
    /\ stopPc = "unmount"
    /\ umountIdx < Len(fsEntries)
    /\ LET dev == fsEntries[umountIdx + 1]
       IN  \E rc \in Statuses, rcForce \in Statuses :
              /\ rc = 0 => rcForce = 0
              /\ cmds' = cmds \o UnmountCmds(dev.mp, rc, rcForce)
              /\ procMounts' = IF rc = 0 \/ rcForce = 0
                               THEN RemoveLastAt(procMounts, dev.mp)
                               ELSE procMounts
    /\ umountIdx' = umountIdx + 1
    /\ UNCHANGED <<mtab, mountsRead, fsEntries, stopPc>>
    /\ UNCHANGED <<cfgVars, options, sysVars, cgVars, mainVars, hostVars, inVars, waitVars>>

\* shutil.copy("/proc/mounts", "/etc/mtab"); an IOError or shutil.Error
\* (mtab not writable, or a link to /proc/mounts) goes to except_hook.
CopyMtab ==
    /\ stopPc = "unmount"
    /\ umountIdx = Len(fsEntries)
    /\ \/ /\ mtab' = procMounts
          /\ stopPc' = "remount_1"
       \/ /\ UNCHANGED mtab
          /\ stopPc' = "except_hook"
    /\ UNCHANGED <<procMounts, mountsRead, fsEntries, umountIdx, cmds>>
    /\ UNCHANGED <<cfgVars, options, sysVars, cgVars, mainVars, hostVars, inVars, waitVars>>

\* remount_ro that sends killall5 only after the forced unmount failed.
RemountKillOnlyForced(force, rc) ==
    << Cmd(IF force THEN "umount -n -r" ELSE "mount -n -o remount,ro",
           "", P_root, rc) >>
    \o (IF rc # 0 /\ force THEN << Cmd("killall5 -9", "", NoPath, 0) >> ELSE <<>>)

\* remount_ro(force), lines 1266-1274, for a root that was found: the attempt
\* and, when its status is not 0, killall5 -9.
RemountCmds(force, rc) ==
    << Cmd(IF force THEN "umount -n -r" ELSE "mount -n -o remount,ro",
           "", P_root, rc) >>
    \o (IF rc # 0 THEN << Cmd("killall5 -9", "", NoPath, 0) >> ELSE <<>>)

\* The ladder going on whatever the attempt returned.
LadderAlwaysNext(pc, rc) ==
    CASE pc = "remount_1" -> "remount_2"
      [] pc = "remount_2" -> "remount_3"
      [] OTHER            -> "done"

\* Lines 1300-1302: if remount_ro(): if remount_ro(): remount_ro(True).
LadderNext(pc, rc) ==
    IF rc = 0 THEN "done"
    ELSE CASE pc = "remount_1" -> "remount_2"
           [] pc = "remount_2" -> "remount_3"
           [] OTHER            -> "done"

\* One call of remount_ro.  With no root line in /proc/mounts rootfs stays
\* None and rootfs[1] raises TypeError, which goes to except_hook.
RemountStep(pc, force) ==
    /\ stopPc = pc
    /\ IF FindRoot(load_file(procMounts)) = <<>>
       THEN /\ stopPc' = "except_hook"
            /\ UNCHANGED cmds
       ELSE \E rc \in Statuses :
              /\ cmds' = cmds \o RemountCmds(force, rc)
              /\ stopPc' = LadderNext(pc, rc)
    /\ UNCHANGED <<procMounts, mtab, mountsRead, fsEntries, umountIdx>>
    /\ UNCHANGED <<cfgVars, options, sysVars, cgVars, mainVars, hostVars, inVars, waitVars>>

RemountRo1     == RemountStep("remount_1", FALSE)
RemountRo2     == RemountStep("remount_2", FALSE)
RemountRoForce == RemountStep("remount_3", TRUE)

\* except_hook: the traceback, then the rescue shell.
StopExceptHook ==
    /\ stopPc = "except_hook"
    /\ cmds' = Append(cmds, Cmd("sulogin", "", NoPath, 0))
    /\ stopPc' = "aborted"
    /\ UNCHANGED <<procMounts, mtab, mountsRead, fsEntries, umountIdx>>
    /\ UNCHANGED <<cfgVars, options, sysVars, cgVars, mainVars, hostVars, inVars, waitVars>>

\* The configurations stop_system is run under: lxc_guest no (the default),
\* yes (set in the config file) and True (the bare mudur=lxc_guest flag).
NoCfgFile == [lines |-> <<>>, readable |-> FALSE, exists |-> FALSE]

NoMudurArgs == [readable |-> TRUE, mudur |-> <<>>]

StopBoots ==
    { [cmd |-> NoMudurArgs, file |-> NoCfgFile],
      [cmd  |-> NoMudurArgs,
       file |-> [lines |-> << CfgLine("kv", "lxc_guest", "'", "yes") >>,
                 readable |-> TRUE, exists |-> TRUE]],
      [cmd  |-> [readable |-> TRUE,
                 mudur |-> << Arg("lxc_guest", FALSE, "") >>],
       file |-> NoCfgFile] }

\* The variables of a machine that is not running.
ConfigResolved ==
    /\ cfgPc = "resolved"
    /\ options = ConfigOptions(cfgFile, cmdline, forcefsckFile, livemedia)

StopIdle ==
    /\ procMounts = <<>>
    /\ mtab = <<>>
    /\ mountsRead = <<>>
    /\ fsEntries = <<>>
    /\ umountIdx = 0
    /\ stopPc = "idle"
    /\ cmds = <<>>

SysIdle ==
    /\ fstabRoot = "absent"
    /\ sysPc = "idle"
    /\ sysBlocked = ""
    /\ sysLog = <<>>

\* The override file is absent.
NoFile == << "absent" >>

\* What a call that has not run handed to hostname.
NoHost == << "None" >>

HostIdle ==
    /\ hostFile = NoFile
    /\ hostBefore = NoFile
    /\ kernelHost = <<>>
    /\ hostSet = NoHost
    /\ hostWrote = FALSE
    /\ hostPc = "idle"
    /\ hostBoots = 0

\* No latest links in /boot, a kernel version without suffix.
NoBootDir == << FALSE, FALSE, "" >>

\* No /etc/conf.d/hdparm, nothing below /sys/block.
NoHdparmFile == << FALSE, << >> >>

HdparmIdle ==
    /\ hdparmFile = NoHdparmFile
    /\ sysBlock = {}

\* An fstab with no entry but that of the root, no stale lock, a writable
\* /etc/mtab.
MtabFilesPlain ==
    /\ fstabOthers = {}
    /\ mtabLock = "none"
    /\ mtabWritable = TRUE

\* No service lists, no kexec files, no wait_bus call.
InIdle ==
    /\ MtabFilesPlain
    /\ bootDir = NoBootDir
    /\ HdparmIdle
    /\ svcBus = {}
    /\ svcEnabled = {}
    /\ svcConditional = {}
    /\ grubDefault = NoFile
    /\ kexecTool = FALSE
    /\ kexecConf = NoFile
    /\ kexecLoaded = "0"
    /\ waitLeft = 0
    /\ waitTries = 0

MainIdle ==
    /\ argv = ""
    /\ mainPc = "idle"
    /\ shouldKexec = FALSE
    /\ mainLog = <<>>
    /\ HostIdle
    /\ InIdle

StopInit ==
    /\ \E b \in StopBoots : cfgFile = b.file /\ cmdline = b.cmd
    /\ forcefsckFile = FALSE
    /\ livemedia = FALSE
    /\ ConfigResolved
    /\ procMounts \in MountTables
    /\ mtab = <<>>
    /\ mountsRead = <<>>
    /\ fsEntries = <<>>
    /\ umountIdx = 0
    /\ stopPc = "stop_services"
    /\ cmds = <<>>
    /\ SysIdle
    /\ CgIdle
    /\ MainIdle

StopNext ==
    \/ StopServices
    \/ StopDbus
    \/ StopUdev
    \/ SaveClock
    \/ DisableSwap
    \/ HaltRecord
    \/ UnmountEntry
    \/ CopyMtab
    \/ RemountRo1
    \/ RemountRo2
    \/ RemountRoForce
    \/ StopExceptHook

SpecStop == StopInit /\ [][StopNext]_vars


-----------------------------------------------------------------------------
(* main() for sysinit.                                                     *)

\* What main() did, in order: a stage procedure whose body ran ("stage"), an
\* external command with its exit status ("cmd"), a UI.warn or UI.error, a
\* bell, a sleep.
Ev(kind, what, rc) == [kind |-> kind, rc |-> rc, what |-> what]

Stage(name) == Ev("stage", name, 0)
Run(c, rc)  == Ev("cmd", c, rc)

\* The exit statuses the model gives to fsck.
FsckStatuses == {0, 1, 2, 3, 4, 7}

\* The variables the sysinit stages leave alone.
sysOthers == <<cfgFile, cmdline, livemedia, cfgPc, options, stopVars, cgVars,
               mainVars, hostVars, inVars, waitVars>>

sysNoCg == <<cfgFile, cmdline, livemedia, cfgPc, options, stopVars, mainVars,
             hostVars, inVars, waitVars>>

\* The test of line 897 without the forced-check flag.
RootCheckWantedPassnoOnly(opts, entry) == entry \notin {"nopassno", "0"}

\* Config.get_fstab_entry_with_mountpoint("/") and line 897: fstabRoot is
\* "absent", "nopassno" (an entry of four or five fields) or the passno.
RootCheckWanted(opts, entry) ==
    Truthy(Get(opts, "forcefsck")) \/ (entry \notin {"nopassno", "0"})

\* The root check with code 3 taken for a failure.
RootFsckOutcomeOnly2(ret) ==
    IF ret = 0 THEN "continue"
    ELSE IF ret = 2 THEN "reboot"
    ELSE "sulogin"

\* check_root_filesystem, lines 913-934: what the exit status of fsck leads to.
RootFsckOutcome(ret) ==
    IF ret = 0 THEN "continue"
    ELSE IF ret = 2 \/ ret = 3 THEN "reboot"
    ELSE "sulogin"

\* The all-filesystems check handling 2 and 3 as the root check does.
AllFsckOutcomeAsRoot(ret) == RootFsckOutcome(ret)

\* check_filesystems, lines 1000-1007.
AllFsckOutcome(ret) ==
    IF ret = 0 THEN "continue"
    ELSE IF ret >= 2 /\ ret <= 3 THEN "warn"
    ELSE "sulogin"

\* Lines 919-929: the bells, the waits and the forced reboot.
RebootEvents ==
    << Ev("warn", "Filesystem repaired, but reboot needed!", 0),
       Ev("bell", "", 0), Ev("sleep", "1", 0),
       Ev("bell", "", 0), Ev("sleep", "1", 0),
       Ev("bell", "", 0), Ev("sleep", "1", 0),
       Ev("bell", "", 0), Ev("sleep", "1", 0),
       Ev("warn", "Rebooting in 10 seconds...", 0),
       Ev("sleep", "10", 0),
       Ev("warn", "Rebooting...", 0),
       Run("reboot -f", 0) >>

\* What check_root_filesystem does once fsck returned ret.
RootFsckEvents(ret) ==
    CASE RootFsckOutcome(ret) = "continue" -> <<>>
      [] RootFsckOutcome(ret) = "reboot"   -> RebootEvents
      [] OTHER -> << Ev("error", "Filesystem could not be repaired", 0),
                     Run("sulogin", 0) >>

RootFsckBlocked(ret) ==
    CASE RootFsckOutcome(ret) = "continue" -> ""
      [] RootFsckOutcome(ret) = "reboot"   -> "reboot -f"
      [] OTHER -> "sulogin"

\* UI.greet, set_console_parameters and minimize_printk_log_level.
Greet ==
    /\ sysPc = "greet" /\ sysBlocked = ""
    /\ sysLog' = sysLog \o << Stage("set_console_parameters"),
                              Run("kbd_mode -u", 0), Run("loadkeys", 0),
                              Run("setfont", 0) >>
    /\ sysPc' = "check_root_filesystem"
    /\ UNCHANGED <<fstabRoot, sysBlocked, forcefsckFile, sysOthers>>

\* main() with set_hostname() right after check_root_filesystem().
StageAfterRootCheckIsHostname == "set_hostname"

\* main(), lines 1362-1366: check_root_filesystem() then
\* mount_root_filesystem().
StageAfterRootCheck == "mount_root_filesystem"

\* check_root_filesystem.
CheckRootFilesystem ==
    /\ sysPc = "check_root_filesystem" /\ sysBlocked = ""
    /\ sysPc' = StageAfterRootCheck
    /\ IF SkippedForGuests(options)
       THEN UNCHANGED <<sysLog, sysBlocked>>
       ELSE IF Truthy(Get(options, "live"))
       THEN /\ sysLog' = Append(sysLog, Stage("check_root_filesystem"))
            /\ UNCHANGED sysBlocked
       ELSE IF fstabRoot = "absent"
       THEN /\ sysLog' = sysLog \o
                << Stage("check_root_filesystem"),
                   Ev("warn", "fstab has no entry for the root filesystem", 0) >>
            /\ UNCHANGED sysBlocked
       ELSE IF ~RootCheckWanted(options, fstabRoot)
       THEN /\ sysLog' = Append(sysLog, Stage("check_root_filesystem"))
            /\ UNCHANGED sysBlocked
       ELSE \E ret \in FsckStatuses :
              /\ sysLog' = sysLog \o
                   << Stage("check_root_filesystem"),
                      Run("mount -n -o remount,ro /", 0),
                      Run(IF Truthy(Get(options, "forcefsck"))
                          THEN "fsck -C -y -f /" ELSE "fsck -C -T -a /", ret) >>
                   \o RootFsckEvents(ret)
              /\ sysBlocked' = RootFsckBlocked(ret)
    /\ UNCHANGED <<fstabRoot, forcefsckFile, sysOthers>>

\* An external command main() waits in comes back: the operator leaves the
\* rescue shell, or reboot -f fails.  (It may also never come back.)
CommandReturns ==
    /\ sysBlocked # ""
    /\ sysBlocked' = ""
    /\ UNCHANGED <<fstabRoot, sysPc, sysLog, forcefsckFile, sysOthers>>

\* mount_root_filesystem, lines 945-954: the read-write remount and, when it
\* fails, the rescue shell.
MountRootFilesystem ==
    /\ sysPc = "mount_root_filesystem" /\ sysBlocked = ""
    /\ IF SkippedForGuests(options)
       THEN /\ sysPc' = "set_hostname"
            /\ UNCHANGED <<sysLog, sysBlocked>>
       ELSE /\ sysPc' = "update_mtab"
            /\ \E rc \in Statuses :
                  IF rc # 0
                  THEN /\ sysLog' = sysLog \o
                            << Stage("mount_root_filesystem"),
                               Run("mount -n -o remount,rw /", rc),
                               Ev("error", "Root filesystem could not be mounted read/write", 0),
                               Run("sulogin", 0) >>
                       /\ sysBlocked' = "sulogin"
                  ELSE /\ sysLog' = sysLog \o
                            << Stage("mount_root_filesystem"),
                               Run("mount -n -o remount,rw /", rc) >>
                       /\ UNCHANGED sysBlocked
    /\ UNCHANGED <<fstabRoot, forcefsckFile, sysOthers>>

\* A path as the text handed to a command.
RECURSIVE PathText(_)
PathText(p) == IF p = <<>> THEN "" ELSE Head(p) \o PathText(Tail(p))

\* Config.get_fstab_entry_with_mountpoint for every mountpoint: the
\* mountpoints /etc/fstab has an entry for.
FstabMountpoints(root, others) ==
    (IF root # "absent" THEN {P_root} ELSE {}) \cup others

\* The loop with an update for every line of /proc/mounts.
RECURSIVE MtabUpdatesEveryLine(_, _)
MtabUpdatesEveryLine(lines, mps) ==
    IF lines = <<>> THEN <<>>
    ELSE << Run("mount -f -o remount " \o PathText(Head(lines).mp), 0) >>
         \o MtabUpdatesEveryLine(Tail(lines), mps)

\* Lines 968-974: mount -f -o remount for the mountpoint of every line of
\* /proc/mounts that fstab has an entry for.
RECURSIVE MtabUpdates(_, _)
MtabUpdates(lines, mps) ==
    IF lines = <<>> THEN <<>>
    ELSE (IF Head(lines).mp \in mps
          THEN << Run("mount -f -o remount " \o PathText(Head(lines).mp), 0) >>
          ELSE <<>>)
         \o MtabUpdates(Tail(lines), mps)

\* update_mtab_for_root, lines 873-883: a stale /etc/mtab~ is removed (or
\* the removal fails), then mount -f /.
UpdateMtabForRoot(lock) ==
    (CASE lock = "stale" ->
             << Ev("warn", "Removing stale lock file /etc/mtab~", 0),
                Ev("unlink", "/etc/mtab~", 0) >>
       [] lock = "stuck" ->
             << Ev("warn", "Removing stale lock file /etc/mtab~", 0),
                Ev("warn", "Failed removing stale lock file /etc/mtab~", 0) >>
       [] OTHER -> <<>>)
    \o << Run("mount -f /", 0) >>

\* mount_root_filesystem, lines 956-974: /etc/mtab is emptied (or the
\* IOError answered with a warning), the mtab entry of / written, then the
\* entries of the mounted filesystems.
UpdateMtab ==
    /\ sysPc = "update_mtab" /\ sysBlocked = ""
    /\ sysLog' = sysLog
          \o (IF mtabWritable
              THEN << Ev("write", "/etc/mtab", 0) >>
              ELSE << Ev("warn", "Couldn't synchronize /etc/mtab from /proc/mounts", 0) >>)
          \o UpdateMtabForRoot(mtabLock)
          \o MtabUpdates(load_file(procMounts),
                         FstabMountpoints(fstabRoot, fstabOthers))
    /\ mtabLock' = IF mtabLock = "stale" THEN "none" ELSE mtabLock
    /\ sysPc' = "set_hostname"
    /\ UNCHANGED <<fstabRoot, sysBlocked, forcefsckFile>>
    /\ UNCHANGED <<cfgFile, cmdline, livemedia, cfgPc, options, stopVars, cgVars,
                   mainVars, hostVars, waitVars>>
    /\ UNCHANGED <<svcBus, svcEnabled, svcConditional, grubDefault, kexecTool,
                   kexecConf, kexecLoaded, bootDir, fstabOthers, mtabWritable,
                   hdparmFile, sysBlock>>

\* A stage procedure that issues its commands and returns.
PlainStage(pc, next, guestSkipped, events) ==
    /\ sysPc = pc /\ sysBlocked = ""
    /\ sysLog' = IF guestSkipped /\ SkippedForGuests(options) THEN sysLog
                 ELSE sysLog \o << Stage(pc) >> \o events
    /\ sysPc' = next
    /\ UNCHANGED <<fstabRoot, sysBlocked, forcefsckFile, sysOthers>>

SetHostname ==
    PlainStage("set_hostname", "autoload_modules", FALSE,
               << Run("hostname", 0) >>)

AutoloadModules ==
    PlainStage("autoload_modules", "check_filesystems", TRUE,
               << Run("modprobe -q -b", 0) >>)

\* What check_filesystems does once fsck returned ret.
AllFsckEvents(ret) ==
    CASE AllFsckOutcome(ret) = "continue" -> <<>>
      [] AllFsckOutcome(ret) = "warn" ->
             << Ev("warn", "Filesystem errors corrected", 0) >>
      [] OTHER ->
             << Ev("error", "Fsck could not correct all errors, manual repair needed", 0),
                Run("sulogin", 0) >>

\* The sentinel removed only after a clean check.
SentinelAfterCleanCheck(forced, file, ret) ==
    IF forced /\ ret = 0 THEN FALSE ELSE file

\* Lines 993-995: in forced mode /forcefsck is unlinked (when it exists)
\* right after fsck returned, before its status is looked at.
SentinelAfterCheck(forced, file, ret) ==
    IF forced THEN FALSE ELSE file

\* check_filesystems.  In forced mode /forcefsck is removed after fsck.
CheckFilesystems ==
    /\ sysPc = "check_filesystems" /\ sysBlocked = ""
    /\ sysPc' = "mount_local_filesystems"
    /\ IF SkippedForGuests(options)
       THEN UNCHANGED <<sysLog, sysBlocked, forcefsckFile>>
       ELSE IF Truthy(Get(options, "live"))
       THEN /\ sysLog' = Append(sysLog, Stage("check_filesystems"))
            /\ UNCHANGED <<sysBlocked, forcefsckFile>>
       ELSE \E ret \in FsckStatuses :
              /\ sysLog' = sysLog \o
                   << Stage("check_filesystems"),
                      Run(IF Truthy(Get(options, "forcefsck"))
                          THEN "fsck -C -R -A -a -f" ELSE "fsck -C -T -R -A -a",
                          ret) >>
                   \o AllFsckEvents(ret)
              /\ forcefsckFile' = SentinelAfterCheck(
                                      Truthy(Get(options, "forcefsck")),
                                      forcefsckFile, ret)
              /\ sysBlocked' = IF AllFsckOutcome(ret) = "sulogin"
                               THEN "sulogin" ELSE ""
    /\ UNCHANGED <<fstabRoot, sysOthers>>

\* main() with mount_tmpfs_run() left out after mount_local_filesystems().
StageAfterLocalMountsIsSwap == "enable_swap"

\* main(), lines 1376-1377: mount_local_filesystems() then mount_tmpfs_run().
StageAfterLocalMounts == "mount_tmpfs_run"

MountLocalFilesystems ==
    PlainStage("mount_local_filesystems", StageAfterLocalMounts, TRUE,
               << Run("mount -at noproc,nocifs,nonfs,nonfs4,noncpfs", 0) >>)

\* mount_tmpfs_run up to the call of Cgroupfs(): a tmpfs that df shows on
\* /run is unmounted, the tmpfs is mounted on /run, then the constructor
\* runs (the Cg steps).
MountTmpfsRun ==
    /\ sysPc = "mount_tmpfs_run" /\ sysBlocked = ""
    /\ IF SkippedForGuests(options)
       THEN /\ sysPc' = "enable_swap"
            /\ UNCHANGED <<sysLog, cgPc, cgRun, cgBefore>>
       ELSE /\ \E onRun \in BOOLEAN :
                  sysLog' = sysLog
                     \o << Stage("mount_tmpfs_run") >>
                     \o (IF onRun THEN << Run("umount /run", 0) >> ELSE <<>>)
                     \o << Run("mount -t tmpfs tmpfs /run", 0),
                           Ev("cgroupfs", "begin", 0) >>
            /\ sysPc' = "cgroupfs"
            /\ cgPc' = "start"
            /\ cgRun' = cgRun + 1
            /\ cgBefore' = cgMounted
    /\ UNCHANGED <<cgEnv, cgMounted, cgControllers, cgTodo, cgExit, cgLog>>
    /\ UNCHANGED <<fstabRoot, sysBlocked, forcefsckFile, sysNoCg>>

\* Cgroupfs() returned to mount_tmpfs_run, which returns to main().  When
\* the constructor called sys.exit the process is over and nothing follows.
CgroupfsReturns ==
    /\ sysPc = "cgroupfs" /\ cgPc = "finished"
    /\ sysLog' = Append(sysLog, Ev("cgroupfs", "end", 0))
    /\ sysPc' = "enable_swap"
    /\ UNCHANGED <<fstabRoot, sysBlocked, forcefsckFile, sysOthers>>

EnableSwap ==
    PlainStage("enable_swap", "set_disk_parameters", TRUE,
               << Run("swapon -a", 0) >>)

\* The orders a dictionary or a directory listing may come in.
Orders(set) == { o \in [1..Cardinality(set) -> set] : IsInjective(o) }

\* The key of the entry for every disk.
K_all == << "a", "l", "l" >>

\* "%s" % flags.split() for flags of one word: the text of the list.
ListText(flags) == "['" \o flags \o "']"

\* run_quiet("/sbin/hdparm", "%s" % flags.split(), "/dev/%s" % name).
HdparmRun(flags, name) ==
    Run("hdparm " \o ListText(flags) \o " /dev/" \o PathText(name), 0)

\* Lines 1106-1111: with an all entry, hdparm for every name of /sys/block
\* that starts with sd, is three letters long and has no entry of its own.
RECURSIVE HdparmAll(_, _)
HdparmAll(conf, names) ==
    IF names = <<>> THEN <<>>
    ELSE LET name == Head(names)
         IN  (IF /\ Len(name) = 3
                 /\ name[1] = "s" /\ name[2] = "d"
                 /\ name \notin DOMAIN conf
              THEN << HdparmRun(conf[K_all], name) >>
              ELSE <<>>)
             \o HdparmAll(conf, Tail(names))

\* Lines 1112-1114: for key, value in conf.  Iterating a dictionary gives
\* its keys, and each key, a string, is unpacked into key and value: two
\* letters go through as key and value, any other length is a ValueError,
\* which reaches except_hook (the traceback and the rescue shell).
RECURSIVE HdparmKeys(_, _)
HdparmKeys(conf, keys) ==
    IF keys = <<>> THEN <<>>
    ELSE IF Len(Head(keys)) # 2
         THEN << Ev("raise", "ValueError", 0), Run("sulogin", 0) >>
         ELSE << HdparmRun(Head(keys)[2], << Head(keys)[1] >>) >>
              \o HdparmKeys(conf, Tail(keys))

\* set_disk_parameters, lines 1100-1114, for the dictionary in the order
\* keys and /sys/block in the order names.
SetDiskParametersEvents(opts, file, keys, names) ==
    IF Truthy(Get(opts, "safe")) \/ ~file[1] \/ DOMAIN file[2] = {}
    THEN <<>>
    ELSE (IF K_all \in DOMAIN file[2] THEN HdparmAll(file[2], names) ELSE <<>>)
         \o HdparmKeys(file[2], keys)

Raised(events) == \E i \in DOMAIN events : events[i].kind = "raise"

\* set_disk_parameters (skipped for guests).
SetDiskParameters ==
    /\ sysPc = "set_disk_parameters" /\ sysBlocked = ""
    /\ IF SkippedForGuests(options)
       THEN /\ UNCHANGED sysLog
            /\ sysPc' = "set_clock"
       ELSE \E keys \in Orders(DOMAIN hdparmFile[2]), names \in Orders(sysBlock) :
              LET events == SetDiskParametersEvents(options, hdparmFile,
                                                    keys, names)
              IN  /\ sysLog' = sysLog \o << Stage("set_disk_parameters") >>
                                      \o events
                  /\ sysPc' = IF Raised(events) THEN "exited" ELSE "set_clock"
    /\ UNCHANGED <<fstabRoot, sysBlocked, forcefsckFile, sysOthers>>

\* touch() that gives False for every errno.
TouchOutcomeAnyErrno(err) == IF err = 0 THEN "True" ELSE "False"

\* touch(), lines 138-155: True when utime or open went through (err 0),
\* False for errno 13 (EACCES), and the exception again for any other errno
\* (30, EROFS, is what a read-only filesystem gives).
TouchOutcome(err) ==
    IF err = 0 THEN "True"
    ELSE IF err = 13 THEN "False"
    ELSE "raise"

\* capture("/sbin/hwclock", mode, option) and the error logged when it wrote
\* to stderr (told by err # 0).
Hwclock(mode, option, err, msg) ==
    << Run("hwclock " \o mode \o " " \o option, err) >>
       \o (IF err # 0 THEN << Ev("error", msg, 0) >> ELSE <<>>)

\* set_clock, lines 1201-1220, for /etc/adjtime found as adj ("absent",
\* "empty" or "data") and touch ending with errno err.
SetClockEvents(opts, adj, err, e1, e2) ==
    LET sync == Hwclock("--hctosys", ClockOption(opts), e2,
                        "Failed to set system clock to hardware clock")
        drift == "Failed to adjust systematic drift of the hardware clock"
    IN  IF Get(opts, "clock_adjust") # S("yes") THEN sync
        ELSE << Ev("touch", adj, err) >> \o
             CASE TouchOutcome(err) = "raise" ->
                     << Ev("raise", "touch", err), Run("sulogin", 0) >>
               [] TouchOutcome(err) = "False" ->
                     Hwclock("--noadjfile", ClockOption(opts), e1, drift) \o sync
               [] OTHER ->
                     (IF adj # "data"
                      THEN << Ev("write", "/etc/adjtime", 0) >> ELSE <<>>)
                     \o Hwclock("--adjust", ClockOption(opts), e1, drift)
                     \o sync

\* set_clock (skipped for guests).  An exception out of touch() reaches
\* except_hook: the traceback, the rescue shell, and the process is over.
SetClock ==
    /\ sysPc = "set_clock" /\ sysBlocked = ""
    /\ IF SkippedForGuests(options)
       THEN /\ UNCHANGED sysLog
            /\ sysPc' = "set_system_language"
       ELSE \E adj \in {"absent", "empty", "data"}, err \in {0, 13, 30},
               e1 \in {0, 1}, e2 \in {0, 1} :
              /\ Get(options, "clock_adjust") # S("yes")
                    => adj = "data" /\ err = 0 /\ e1 = 0
              /\ TouchOutcome(err) = "raise" => e1 = 0 /\ e2 = 0
              /\ sysLog' = sysLog \o << Stage("set_clock") >>
                                  \o SetClockEvents(options, adj, err, e1, e2)
              /\ sysPc' = IF /\ Get(options, "clock_adjust") = S("yes")
                             /\ TouchOutcome(err) = "raise"
                          THEN "exited" ELSE "set_system_language"
    /\ UNCHANGED <<fstabRoot, sysBlocked, forcefsckFile, sysOthers>>

SetSystemLanguage ==
    PlainStage("set_system_language", "accounting", FALSE,
               << Ev("write", "/etc/mudur/language", 0),
                  Ev("write", "/etc/mudur/keymap", 0),
                  Ev("write", "/etc/mudur/locale", 0) >>)

\* Lines 1394-1413: utmp and wtmp, the tmpfiles, /dev/shm.
Accounting ==
    PlainStage("accounting", "start_udev", FALSE,
               << Ev("write", "/run/utmp", 0),
                  Run("chgrp utmp /run/utmp /var/log/wtmp", 0),
                  Run("kmod static-nodes", 0),
                  Run("mudur_tmpfiles.py --boot", 0),
                  Run("mount -t tmpfs tmpfs /dev/shm", 0) >>)

StartUdev ==
    PlainStage("start_udev", "done", TRUE,
               << Run("start-stop-daemon --start udevd", 0),
                  Run("udevadm trigger", 0) >>)

\* The boots sysinit is run under: lxc_guest no or True, a live medium or
\* not, the force-check sentinel or not.
SysBoots ==
    { [cmd |-> NoMudurArgs, file |-> NoCfgFile],
      [cmd  |-> [readable |-> TRUE,
                 mudur |-> << Arg("lxc_guest", FALSE, "") >>],
       file |-> NoCfgFile] }

SysMountTables ==
    { << Mount("rootfs", P_root, "rootfs"), Mount("/dev/sda1", P_root, "ext4") >>,
      << Mount("/dev/sda1", P_root, "ext4"), Mount("/dev/sda2", P_data, "ext4") >> }

\* What the bootstrap finds at boot: a working kernel report with one
\* controller enabled and one disabled, the same with a cgroup line in fstab,
\* no /proc/cgroups, no /sys/fs/cgroup.
SysCgEnvs ==
    LET report == [c \in {"cpu", "memory"} |-> IF c = "cpu" THEN 1 ELSE 0]
    IN  { [fstab |-> << FstabLine(FALSE, -1) >>, kernel |-> TRUE, sysfs |-> TRUE,
           cgroups |-> report],
          [fstab |-> << FstabLine(FALSE, -1), FstabLine(FALSE, 20) >>,
           kernel |-> TRUE, sysfs |-> TRUE, cgroups |-> report],
          [fstab |-> << FstabLine(FALSE, -1) >>, kernel |-> FALSE, sysfs |-> TRUE,
           cgroups |-> report],
          [fstab |-> << FstabLine(FALSE, -1) >>, kernel |-> TRUE, sysfs |-> FALSE,
           cgroups |-> report] }

SysInit ==
    /\ \E b \in SysBoots : cfgFile = b.file /\ cmdline = b.cmd
    /\ forcefsckFile \in BOOLEAN
    /\ livemedia \in BOOLEAN
    /\ ConfigResolved
    /\ procMounts \in SysMountTables
    /\ mtab = <<>>
    /\ mountsRead = <<>>
    /\ fsEntries = <<>>
    /\ umountIdx = 0
    /\ stopPc = "idle"
    /\ cmds = <<>>
    /\ fstabRoot \in {"absent", "nopassno", "0", "1"}
    /\ sysPc = "greet"
    /\ sysBlocked = ""
    /\ sysLog = <<>>
    /\ cgEnv \in SysCgEnvs
    /\ cgMounted = {}
    /\ cgPc = "idle"
    /\ cgControllers = [x \in {} |-> 0]
    /\ cgTodo = {}
    /\ cgRun = 0
    /\ cgBefore = {}
    /\ cgExit = 0
    /\ cgLog = <<>>
    /\ MainIdle

SysNext ==
    \/ Greet
    \/ CheckRootFilesystem
    \/ CommandReturns
    \/ MountRootFilesystem
    \/ UpdateMtab
    \/ SetHostname
    \/ AutoloadModules
    \/ CheckFilesystems
    \/ MountLocalFilesystems
    \/ MountTmpfsRun
    \/ CgSteps
    \/ CgroupfsReturns
    \/ EnableSwap
    \/ SetDiskParameters
    \/ SetClock
    \/ SetSystemLanguage
    \/ Accounting
    \/ StartUdev

SpecSysinit == SysInit /\ [][SysNext]_vars

\* The remount of the root read-write and the update of /etc/mtab, for
\* every mount table, fstab entries for some of /, /data, /mnt and /mnt/x, a
\* lock file or none, /etc/mtab writable or not.
MtabInit ==
    /\ \E b \in SysBoots : cfgFile = b.file /\ cmdline = b.cmd
    /\ forcefsckFile = FALSE
    /\ livemedia = FALSE
    /\ ConfigResolved
    /\ procMounts \in MountTables
    /\ mtab = <<>>
    /\ mountsRead = <<>>
    /\ fsEntries = <<>>
    /\ umountIdx = 0
    /\ stopPc = "idle"
    /\ cmds = <<>>
    /\ fstabRoot \in {"absent", "1"}
    /\ sysPc = "mount_root_filesystem"
    /\ sysBlocked = ""
    /\ sysLog = <<>>
    /\ CgIdle
    /\ argv = ""
    /\ mainPc = "idle"
    /\ shouldKexec = FALSE
    /\ mainLog = <<>>
    /\ HostIdle
    /\ svcBus = {}
    /\ svcEnabled = {}
    /\ svcConditional = {}
    /\ grubDefault = NoFile
    /\ kexecTool = FALSE
    /\ kexecConf = NoFile
    /\ kexecLoaded = "0"
    /\ bootDir = NoBootDir
    /\ HdparmIdle
    /\ fstabOthers \in SUBSET {P_data, P_mnt, P_mntx}
    /\ mtabLock \in {"none", "stale", "stuck"}
    /\ mtabWritable \in BOOLEAN
    /\ waitLeft = 0
    /\ waitTries = 0

MtabNext == MountRootFilesystem \/ CommandReturns \/ UpdateMtab

SpecMtab == MtabInit /\ [][MtabNext]_vars

\* The configurations the clock is set and saved under: clock UTC, utc,
\* local or not given, clock_adjust yes or not given, a guest or not.
ClockBoots ==
    { [cmd  |-> [readable |-> TRUE, mudur |-> g],
       file |-> [lines |-> c \o a, readable |-> TRUE, exists |-> TRUE]] :
         g \in { <<>>, << Arg("lxc_guest", FALSE, "") >> },
         c \in { <<>>, << CfgLine("kv", "clock", "", "UTC") >>,
                 << CfgLine("kv", "clock", "\"", "utc") >>,
                 << CfgLine("kv", "clock", "", "local") >> },
         a \in { <<>>, << CfgLine("kv", "clock_adjust", "", "yes") >> } }

\* One boot and one shutdown of the same configuration, each standing
\* before its clock step.
ClockInit ==
    /\ \E b \in ClockBoots : cfgFile = b.file /\ cmdline = b.cmd
    /\ forcefsckFile = FALSE
    /\ livemedia \in BOOLEAN
    /\ ConfigResolved
    /\ procMounts = <<>>
    /\ mtab = <<>>
    /\ mountsRead = <<>>
    /\ fsEntries = <<>>
    /\ umountIdx = 0
    /\ stopPc = "save_clock"
    /\ cmds = <<>>
    /\ fstabRoot = "absent"
    /\ sysPc = "set_clock"
    /\ sysBlocked = ""
    /\ sysLog = <<>>
    /\ CgIdle
    /\ MainIdle

ClockNext == SetClock \/ SaveClock

SpecClock == ClockInit /\ [][ClockNext]_vars

-----------------------------------------------------------------------------
(* set_disk_parameters on its own: every dictionary of the pool, every     *)
(* listing of /sys/block, in plain, safe and guest mode.                   *)

K_sda == << "s", "d", "a" >>
K_sdb == << "s", "d", "b" >>

\* The flags the pool gives to a key.
HdparmFlags(key) ==
    CASE key = K_all -> "-d1"
      [] key = K_sda -> "-S120"
      [] key = K_sdb -> "-c3"
      [] OTHER       -> "-a8"

\* /etc/conf.d/hdparm: absent, or with entries for any of all, sda, sdb and
\* the two-letter key hd (none of them: the file has no key=value line).
HdparmFiles ==
    { NoHdparmFile }
    \cup { << TRUE, IF keys = {} THEN << >>
                    ELSE [k \in keys |-> HdparmFlags(k)] >> :
             keys \in SUBSET { K_all, K_sda, K_sdb, << "h", "d" >> } }

\* /sys/block: disks, an optical drive, a disk with a four-letter name.
BlockNames == { K_sda, K_sdb, << "s", "r", "0" >>, << "s", "d", "a", "a" >> }

HdparmBoots ==
    { [cmd  |-> [readable |-> TRUE, mudur |-> g], file |-> NoCfgFile] :
         g \in { <<>>, << Arg("safe", FALSE, "") >>,
                 << Arg("lxc_guest", FALSE, "") >> } }

HdparmInit ==
    /\ \E b \in HdparmBoots : cfgFile = b.file /\ cmdline = b.cmd
    /\ forcefsckFile = FALSE
    /\ livemedia = FALSE
    /\ ConfigResolved
    /\ StopIdle
    /\ fstabRoot = "absent"
    /\ sysPc = "set_disk_parameters"
    /\ sysBlocked = ""
    /\ sysLog = <<>>
    /\ CgIdle
    /\ argv = ""
    /\ mainPc = "idle"
    /\ shouldKexec = FALSE
    /\ mainLog = <<>>
    /\ HostIdle
    /\ MtabFilesPlain
    /\ bootDir = NoBootDir
    /\ svcBus = {}
    /\ svcEnabled = {}
    /\ svcConditional = {}
    /\ grubDefault = NoFile
    /\ kexecTool = FALSE
    /\ kexecConf = NoFile
    /\ kexecLoaded = "0"
    /\ waitLeft = 0
    /\ waitTries = 0
    /\ hdparmFile \in HdparmFiles
    /\ sysBlock \in SUBSET BlockNames

SpecHdparm == HdparmInit /\ [][SetDiskParameters]_vars

-----------------------------------------------------------------------------
(* Config resolution on its own: every config file, command line, sentinel *)
(* and live-media marker of the pools, then CONFIG = Config().             *)

ConfigSpecInit ==
    /\ cfgFile \in CfgFiles
    /\ cmdline \in Cmdlines
    /\ forcefsckFile \in BOOLEAN
    /\ livemedia \in BOOLEAN
    /\ cfgPc = "start"
    /\ options = EmptyDict
    /\ StopIdle
    /\ SysIdle
    /\ CgIdle
    /\ MainIdle

ConfigNext == ConfigInit

SpecConfig == ConfigSpecInit /\ [][ConfigNext]_vars

-----------------------------------------------------------------------------
(* The cgroup bootstrap on its own: Cgroupfs() called up to MaxRuns times  *)
(* on one machine.                                                         *)

CgroupInit ==
    /\ cfgFile = NoCfgFile
    /\ cmdline = NoMudurArgs
    /\ forcefsckFile = FALSE
    /\ livemedia = FALSE
    /\ ConfigResolved
    /\ StopIdle
    /\ SysIdle
    /\ cgEnv \in CgEnvs
    /\ cgMounted \in CgMountedFor(cgEnv)
    /\ cgPc = "start"
    /\ cgControllers = [x \in {} |-> 0]
    /\ cgTodo = {}
    /\ cgRun = 1
    /\ cgBefore = cgMounted
    /\ cgExit = 0
    /\ cgLog = <<>>
    /\ MainIdle

CgroupNext == CgSteps \/ CgroupfsAgain

SpecCgroup == CgroupInit /\ [][CgroupNext]_vars


-----------------------------------------------------------------------------
(* main() for reboot and shutdown, lines 1471-1505.                        *)

\* Lines 1489-1501: the two commands that end the run, the second issued
\* when the first came back.
FinalCmds(stage, rc) ==
    IF stage = "reboot"
    THEN << Cmd("reboot -idp", "", NoPath, rc), Cmd("reboot -f", "", NoPath, 0) >>
    ELSE << Cmd("halt -ihdp", "", NoPath, rc), Cmd("halt -f", "", NoPath, 0) >>

\* The bit that marks a default entry set for the next boot only, 0x4000.
GrubOnceFlag == 16384

\* Bit 14 of the two's complement of n.
FlagBit(n) == (n \div GrubOnceFlag) % 2

\* n ^ 0x4000
XorFlag(n) == IF FlagBit(n) = 1 THEN n - GrubOnceFlag ELSE n + GrubOnceFlag

\* The inhibition that tests the flag bit alone.
GrubInhibitsByBit(g) == g[1] = "int" /\ FlagBit(g[2]) = 1

\* Lines 193-197 for what load_file("/boot/grub/default") gave: nothing
\* (NoFile, or a file without text), or the text of an integer; the result
\* is grub_default ^ 0x4000 < 0x4000.
GrubInhibits(g) == g[1] = "int" /\ XorFlag(g[2]) < GrubOnceFlag

\* Line 196: int() raises ValueError for a text that is no integer.
GrubRaises(g) == g[1] = "text"

\* An /etc/conf.d/kexec with the two switches and nothing else.
KexecConf(reboot, shutdown) ==
    << reboot, shutdown, "None", "None", "None", "None" >>

\* os.uname()[2] for the suffix of bootDir.
KernelVer(bd) == IF bd[3] = "" THEN "3.10.0" ELSE "3.10.0-" \o bd[3]

\* Lines 219-224: /boot/latest-kernel when it exists, with the suffix of the
\* running kernel, else the kernel of the running version.
DefaultKernel(bd) ==
    IF ~bd[1] THEN "/boot/kernel-" \o KernelVer(bd)
    ELSE IF bd[3] # "" THEN "/boot/latest-kernel-" \o bd[3]
    ELSE "/boot/latest-kernel"

\* The initramfs chosen by the link of the kernel.
DefaultInitrdWithKernel(bd) ==
    IF ~bd[1] THEN "/boot/initramfs-" \o KernelVer(bd)
    ELSE IF bd[3] # "" THEN "/boot/latest-initramfs-" \o bd[3]
    ELSE "/boot/latest-initramfs"

\* Lines 226-229: the same for /boot/latest-initramfs.
DefaultInitrd(bd) ==
    IF ~bd[2] THEN "/boot/initramfs-" \o KernelVer(bd)
    ELSE IF bd[3] # "" THEN "/boot/latest-initramfs-" \o bd[3]
    ELSE "/boot/latest-initramfs"

\* Lines 231-248: the arguments of kexec --load.  KERNEL_IMAGE and
\* INITRD_IMAGE replace the defaults; OVERWRITE_CMDLINE_<stage> when it is
\* not empty, else APPEND_CMDLINE_<stage> when it is not empty, else the
\* command line of the running kernel.
KexecLoadArgs(conf, bd) ==
    (IF conf[3] # "None" THEN conf[3] ELSE DefaultKernel(bd))
    \o " --initrd "
    \o (IF conf[4] # "None" THEN conf[4] ELSE DefaultInitrd(bd))
    \o (IF conf[6] \notin {"None", ""} THEN " --command-line " \o conf[6]
        ELSE IF conf[5] \notin {"None", ""}
        THEN " --reuse-cmdline --append " \o conf[5]
        ELSE " --reuse-cmdline")

\* Lines 203-209: KEXEC_REBOOT for reboot, KEXEC_SHUTDOWN for shutdown.
KexecSwitch(conf, stage) ==
    \/ conf[1] = "yes" /\ stage = "reboot"
    \/ conf[2] = "yes" /\ stage = "shutdown"

\* load_kexec_image() gets as far as kexec --load: not a guest, not
\* inhibited, the tool and the config file exist and the switch of the stage
\* is on.
KexecLoadWanted ==
    /\ ~SkippedForGuests(options)
    /\ ~GrubRaises(grubDefault)
    /\ ~GrubInhibits(grubDefault)
    /\ kexecTool
    /\ kexecConf # NoFile
    /\ KexecSwitch(kexecConf, argv)

\* Lines 1472-1485: local.stop is sourced when it exists and safe is not
\* set, then load_kexec_image() (None for guests, else whether
\* /sys/kernel/kexec_loaded holds 1 after kexec --load; the IOError of an
\* unreadable kexec_loaded is not caught by except OSError), then
\* stop_system() is entered.
HaltBegin ==
    /\ mainPc = "start"
    /\ argv \in {"reboot", "shutdown"}
    /\ \E localStop \in BOOLEAN, rc \in Statuses :
          /\ rc # 0 => localStop /\ ~Truthy(Get(options, "safe"))
          /\ cmds' = cmds
                \o (IF localStop /\ ~Truthy(Get(options, "safe"))
                    THEN << Cmd("bash /etc/conf.d/local.stop", "", NoPath, rc) >>
                    ELSE <<>>)
                \o (IF KexecLoadWanted
                    THEN << Cmd("kexec --load",
                                KexecLoadArgs(kexecConf, bootDir), NoPath, 0) >>
                    ELSE <<>>)
    /\ shouldKexec' = (KexecLoadWanted /\ kexecLoaded = "1")
    /\ IF \/ ~SkippedForGuests(options) /\ GrubRaises(grubDefault)
          \/ KexecLoadWanted /\ kexecLoaded = "unreadable"
       THEN /\ mainPc' = "except_hook"
            /\ UNCHANGED stopPc
       ELSE /\ mainPc' = "stop_system"
            /\ stopPc' = "stop_services"
    /\ UNCHANGED <<procMounts, mtab, mountsRead, fsEntries, umountIdx>>
    /\ UNCHANGED <<cfgVars, options, sysVars, cgVars, argv, mainLog, hostVars, inVars, waitVars>>

\* except_hook for an exception raised in load_kexec_image: the traceback,
\* the rescue shell, and the interpreter ends the process.
HaltExceptHook ==
    /\ mainPc = "except_hook"
    /\ cmds' = Append(cmds, Cmd("sulogin", "", NoPath, 0))
    /\ mainPc' = "exited"
    /\ UNCHANGED <<procMounts, mtab, mountsRead, fsEntries, umountIdx, stopPc>>
    /\ UNCHANGED <<cfgVars, options, sysVars, cgVars>>
    /\ UNCHANGED <<argv, shouldKexec, mainLog, hostVars, inVars, waitVars>>

\* The decision of main() with the order of kexec and reboot turned round.
AfterStopSystemFinalFirst(should) == "final"

\* Lines 1487-1489: if should_kexec: kexec_halt().
AfterStopSystem(should) == IF should THEN "kexec" ELSE "final"

\* stop_system() returned.
StopSystemReturns ==
    /\ mainPc = "stop_system"
    /\ stopPc = "done"
    /\ mainPc' = AfterStopSystem(shouldKexec)
    /\ UNCHANGED <<cfgVars, options, stopVars, sysVars, cgVars>>
    /\ UNCHANGED <<argv, shouldKexec, mainLog, hostVars, inVars, waitVars>>

\* An exception left stop_system(): after except_hook the interpreter ends
\* the process.
StopSystemRaised ==
    /\ mainPc = "stop_system"
    /\ stopPc = "aborted"
    /\ mainPc' = "exited"
    /\ UNCHANGED <<cfgVars, options, stopVars, sysVars, cgVars>>
    /\ UNCHANGED <<argv, shouldKexec, mainLog, hostVars, inVars, waitVars>>

\* kexec_halt() (skipped for guests): kexec -e starts the loaded kernel, or
\* fails and returns.
KexecHalt ==
    /\ mainPc = "kexec"
    /\ IF SkippedForGuests(options)
       THEN /\ UNCHANGED cmds
            /\ mainPc' = "final"
       ELSE \E rc \in {0, 32} :
               /\ cmds' = Append(cmds, Cmd("kexec -e", "", NoPath, rc))
               /\ mainPc' = IF rc = 0 THEN "kexec_jumped" ELSE "final"
    /\ UNCHANGED <<procMounts, mtab, mountsRead, fsEntries, umountIdx, stopPc>>
    /\ UNCHANGED <<cfgVars, options, sysVars, cgVars>>
    /\ UNCHANGED <<argv, shouldKexec, mainLog, hostVars, inVars, waitVars>>

FinalCommands ==
    /\ mainPc = "final"
    /\ \E rc \in Statuses : cmds' = cmds \o FinalCmds(argv, rc)
    /\ mainPc' = "halted"
    /\ UNCHANGED <<procMounts, mtab, mountsRead, fsEntries, umountIdx, stopPc>>
    /\ UNCHANGED <<cfgVars, options, sysVars, cgVars>>
    /\ UNCHANGED <<argv, shouldKexec, mainLog, hostVars, inVars, waitVars>>

\* /proc/mounts at shutdown: the lines of the root and at most one more.
HaltMountTables ==
    { r \o t : r \in RootLines,
               t \in { <<>>, << Mount("/dev/sda2", P_data, "ext4") >> } }

\* What load_kexec_image finds: no kexec at all, a kexec set up for both
\* stages (with kexec_loaded 1, or not readable).
HaltKexecInputs ==
    { << NoFile, FALSE, NoFile, "0" >>,
      << NoFile, TRUE, KexecConf("yes", "yes"), "1" >>,
      << << "int", 0 >>, TRUE, KexecConf("yes", "yes"), "unreadable" >> }

HaltInit ==
    /\ \E b \in StopBoots : cfgFile = b.file /\ cmdline = b.cmd
    /\ forcefsckFile = FALSE
    /\ livemedia = FALSE
    /\ ConfigResolved
    /\ procMounts \in HaltMountTables
    /\ mtab = <<>>
    /\ mountsRead = <<>>
    /\ fsEntries = <<>>
    /\ umountIdx = 0
    /\ stopPc = "idle"
    /\ cmds = <<>>
    /\ SysIdle
    /\ CgIdle
    /\ argv \in {"reboot", "shutdown"}
    /\ mainPc = "start"
    /\ shouldKexec = FALSE
    /\ mainLog = <<>>
    /\ HostIdle
    /\ MtabFilesPlain
    /\ bootDir = NoBootDir
    /\ HdparmIdle
    /\ svcBus = {}
    /\ svcEnabled = {}
    /\ svcConditional = {}
    /\ \E k \in HaltKexecInputs :
          /\ grubDefault = k[1]
          /\ kexecTool = k[2]
          /\ kexecConf = k[3]
          /\ kexecLoaded = k[4]
    /\ waitLeft = 0
    /\ waitTries = 0

HaltNext ==
    \/ HaltBegin
    \/ HaltExceptHook
    \/ StopNext
    \/ StopSystemReturns
    \/ StopSystemRaised
    \/ KexecHalt
    \/ FinalCommands

\* The process is never suspended for ever: a step that can be taken is
\* taken.
SpecHalt == HaltInit /\ [][HaltNext]_vars /\ WF_vars(HaltNext)

\* What /boot/grub/default may hold.
GrubDefaults ==
    { NoFile, << "empty" >>, << "text" >> }
    \cup { << "int", n >> : n \in { 0, 3, 16384, 16387, 32767, 32768, 49152,
                                    49155, 65536, -1, -16384, -16385 } }

KexecConfs ==
    { NoFile, KexecConf("yes", "no"), KexecConf("no", "yes"),
      KexecConf("no", "no") }

\* Reboot and shutdown with every kexec setup, on a machine with the root
\* filesystem and one more.
KexecInit ==
    /\ \E b \in StopBoots : cfgFile = b.file /\ cmdline = b.cmd
    /\ forcefsckFile = FALSE
    /\ livemedia = FALSE
    /\ ConfigResolved
    /\ procMounts = << Mount("rootfs", P_root, "rootfs"),
                       Mount("/dev/sda1", P_root, "ext4"),
                       Mount("/dev/sda2", P_data, "ext4") >>
    /\ mtab = <<>>
    /\ mountsRead = <<>>
    /\ fsEntries = <<>>
    /\ umountIdx = 0
    /\ stopPc = "idle"
    /\ cmds = <<>>
    /\ SysIdle
    /\ CgIdle
    /\ argv \in {"reboot", "shutdown"}
    /\ mainPc = "start"
    /\ shouldKexec = FALSE
    /\ mainLog = <<>>
    /\ HostIdle
    /\ MtabFilesPlain
    /\ bootDir = NoBootDir
    /\ HdparmIdle
    /\ svcBus = {}
    /\ svcEnabled = {}
    /\ svcConditional = {}
    /\ grubDefault \in GrubDefaults
    /\ kexecTool \in BOOLEAN
    /\ kexecConf \in KexecConfs
    /\ kexecLoaded \in {"1", "0", "unreadable"}
    /\ waitLeft = 0
    /\ waitTries = 0

SpecKexec == KexecInit /\ [][HaltNext]_vars /\ WF_vars(HaltNext)

\* What /etc/conf.d/kexec may hold besides the switches, both on here.
KexecImageConfs ==
    { << "yes", "yes", k, i, a, o >> :
         k \in {"None", "/boot/vmlinuz"}, i \in {"None", "/boot/initrd.img"},
         a \in {"None", "", "quiet"}, o \in {"None", "", "root=/dev/sda1"} }

BootDirs == { << k, i, x >> : k \in BOOLEAN, i \in BOOLEAN, x \in {"", "pae"} }

\* load_kexec_image with kexec set up, for every configuration of the
\* images and of the command line and every state of /boot.
KexecLoadInit ==
    /\ cfgFile = NoCfgFile
    /\ cmdline = NoMudurArgs
    /\ forcefsckFile = FALSE
    /\ livemedia = FALSE
    /\ ConfigResolved
    /\ procMounts = << Mount("/dev/sda1", P_root, "ext4") >>
    /\ mtab = <<>>
    /\ mountsRead = <<>>
    /\ fsEntries = <<>>
    /\ umountIdx = 0
    /\ stopPc = "idle"
    /\ cmds = <<>>
    /\ SysIdle
    /\ CgIdle
    /\ argv \in {"reboot", "shutdown"}
    /\ mainPc = "start"
    /\ shouldKexec = FALSE
    /\ mainLog = <<>>
    /\ HostIdle
    /\ svcBus = {}
    /\ svcEnabled = {}
    /\ svcConditional = {}
    /\ grubDefault = NoFile
    /\ kexecTool = TRUE
    /\ kexecConf \in KexecImageConfs
    /\ kexecLoaded \in {"1", "0"}
    /\ bootDir \in BootDirs
    /\ HdparmIdle
    /\ MtabFilesPlain
    /\ waitLeft = 0
    /\ waitTries = 0

SpecKexecLoad == KexecLoadInit /\ [][HaltBegin]_vars


-----------------------------------------------------------------------------
(* set_hostname, lines 1053-1083.  A text is a sequence of characters; the *)
(* nine characters HOSTNAME= are written as the one element "H" and the    *)
(* six characters (none) as the one element "(none)".                      *)

MaxHostLines == 2
MaxBoots == 2

\* str.find(pat, start) for positions counted from 1: the lowest position
\* from start on at which pat begins, 0 when there is none.
Find(data, pat, start) ==
    LET at == { i \in start..(Len(data) - Len(pat) + 1) :
                   SubSeq(data, i, i + Len(pat) - 1) = pat }
    IN  IF at = {} THEN 0 ELSE CHOOSE i \in at : \A k \in at : i <= k

\* data.split("\n")
RECURSIVE SplitLines(_)
SplitLines(data) ==
    LET k == Find(data, << "\n" >>, 1)
    IN  IF k = 0 THEN << data >>
        ELSE << SubSeq(data, 1, k - 1) >>
             \o SplitLines(SubSeq(data, k + 1, Len(data)))

\* "\n".join(lines)
RECURSIVE JoinLines(_)
JoinLines(lines) ==
    IF lines = <<>> THEN <<>>
    ELSE IF Len(lines) = 1 THEN lines[1]
    ELSE lines[1] \o << "\n" >> \o JoinLines(Tail(lines))

\* The test of load_file's list comprehension, line 86.
KeptLine(line) == line # <<>> /\ line[1] # "#"

\* load_file for a text file: "" when it cannot be opened, else its lines
\* that are not empty and do not start with "#", joined by "\n".
LoadFileText(file) ==
    IF file = NoFile THEN <<>>
    ELSE LET lines == SplitLines(file)
         IN  JoinLines(SelectSeq(lines, KeptLine))

HostKey == << "H", "\"" >>

\* Lines 1059-1063: the text between HOSTNAME=" and the next quote, NoHost
\* when one of the two is not found.
ParseHostname(data) ==
    LET i == Find(data, HostKey, 1)
        j == IF i = 0 THEN 0 ELSE Find(data, << "\"" >>, i + Len(HostKey))
    IN  IF i = 0 \/ j = 0 THEN NoHost
        ELSE SubSeq(data, i + Len(HostKey), j - 1)

\* The rewriting that also replaces the closing quote.
RewriteDroppingQuote(data, host) ==
    LET i == Find(data, HostKey, 1)
        j == IF i = 0 THEN 0 ELSE Find(data, << "\"" >>, i + Len(HostKey))
    IN  IF i # 0
        THEN IF j # 0
             THEN SubSeq(data, 1, i + Len(HostKey) - 1) \o host
                  \o SubSeq(data, j + 1, Len(data))
             ELSE data
        ELSE HostKey \o host \o << "\"", "\n" >> \o data

\* Lines 1073-1079: data with the text between the quotes replaced.
Rewrite(data, host) ==
    LET i == Find(data, HostKey, 1)
        j == IF i = 0 THEN 0 ELSE Find(data, << "\"" >>, i + Len(HostKey))
    IN  IF i # 0
        THEN IF j # 0
             THEN SubSeq(data, 1, i + Len(HostKey) - 1) \o host
                  \o SubSeq(data, j, Len(data))
             ELSE data
        ELSE HostKey \o host \o << "\"", "\n" >> \o data

\* Lines 1065-1070: the kernel's hostname when it has one, else the one of
\* the file, else pisilinux.
ChosenHost(khost, uhost) ==
    IF khost # <<>> /\ khost # << "(none)" >> THEN khost
    ELSE IF uhost # NoHost /\ uhost # <<>> THEN uhost
    ELSE << "pisilinux" >>

\* set_hostname().  capture("/bin/hostname")[0].rstrip("\n") is kernelHost
\* (the pool has no hostname that ends with a line break).
set_hostname ==
    /\ hostPc = "start"
    /\ LET data  == LoadFileText(hostFile)
           uhost == IF hostFile = NoFile THEN NoHost ELSE ParseHostname(data)
           host  == ChosenHost(kernelHost, uhost)
           write == uhost # NoHost /\ uhost # <<>> /\ host # uhost
       IN  /\ hostBefore' = hostFile
           /\ hostFile' = IF write THEN Rewrite(data, host) ELSE hostFile
           /\ hostWrote' = write
           /\ hostSet' = host
           /\ kernelHost' = host
    /\ hostPc' = "done"
    /\ UNCHANGED hostBoots
    /\ UNCHANGED <<cfgVars, options, stopVars, sysVars, cgVars>>
    /\ UNCHANGED <<argv, mainPc, shouldKexec, mainLog, inVars, waitVars>>

\* The hostnames a kernel may have at boot: none, (none), or one that was
\* set before mudur runs (any bytes).
KernelHosts ==
    { <<>>, << "(none)" >>, << "a" >>, << "b" >>, << "b", "\"" >>,
      << "\"", "b" >>, << "a", "\n", "b" >>, << "b", "\n", "#" >> }

\* The machine is started again.
NextBoot ==
    /\ hostPc = "done"
    /\ hostBoots < MaxBoots
    /\ hostBoots' = hostBoots + 1
    /\ kernelHost' \in KernelHosts
    /\ hostPc' = "start"
    /\ UNCHANGED <<hostFile, hostBefore, hostSet, hostWrote>>
    /\ UNCHANGED <<cfgVars, options, stopVars, sysVars, cgVars>>
    /\ UNCHANGED <<argv, mainPc, shouldKexec, mainLog, inVars, waitVars>>

\* The lines an override file is made of.
HostLinePool ==
    { << "H", "\"", "a", "\"" >>,
      << "H", "\"", "\"" >>,
      << "H", "\"", "a" >>,
      << "b", "H", "\"", "a", "\"", "b" >>,
      << "#", "H", "\"", "b", "\"" >>,
      << "#", "a" >>,
      << "b" >>,
      <<>> }

HostFiles ==
    { NoFile }
    \cup { JoinLines(ls) \o end : ls \in SeqsUpTo(HostLinePool, MaxHostLines),
                                  end \in { <<>>, << "\n" >> } }

HostInit ==
    /\ cfgFile = NoCfgFile
    /\ cmdline = NoMudurArgs
    /\ forcefsckFile = FALSE
    /\ livemedia = FALSE
    /\ ConfigResolved
    /\ StopIdle
    /\ SysIdle
    /\ CgIdle
    /\ argv = ""
    /\ mainPc = "idle"
    /\ shouldKexec = FALSE
    /\ mainLog = <<>>
    /\ InIdle
    /\ hostFile \in HostFiles
    /\ hostBefore = hostFile
    /\ kernelHost \in KernelHosts
    /\ hostSet = NoHost
    /\ hostWrote = FALSE
    /\ hostPc = "start"
    /\ hostBoots = 1

HostNext == set_hostname \/ NextBoot

SpecHostname == HostInit /\ [][HostNext]_vars


-----------------------------------------------------------------------------
(* main() for the default runlevel, lines 1456-1465, with start_services,  *)
(* lines 672-733.  mainLog holds the manage_service calls as               *)
(* Ev(command, service, 0).                                                *)

defOthers == <<cfgVars, options, stopVars, sysVars, cgVars, argv, shouldKexec,
               hostVars, inVars, waitVars>>

defNoWait == <<cfgVars, options, stopVars, sysVars, cgVars, argv, shouldKexec,
               hostVars, inVars>>

\* Lines 1457-1462: local.start is sourced when it exists and safe is not
\* set.
DefaultBegin ==
    /\ mainPc = "start"
    /\ argv = "default"
    /\ \E localStart \in BOOLEAN, rc \in Statuses :
          /\ rc # 0 => localStart /\ ~Truthy(Get(options, "safe"))
          /\ mainLog' = IF localStart /\ ~Truthy(Get(options, "safe"))
                        THEN Append(mainLog, Run("bash /etc/conf.d/local.start", rc))
                        ELSE mainLog
    /\ mainPc' = "start_services"
    /\ UNCHANGED defOthers

\* start_services that goes on without a bus.
BusFailureGoesOn == "network"

\* Line 681: the return after the failed connection; main() then has only
\* the flush of the log left.
AfterBusFailure == "flush"

\* Lines 676-681: dbus.SystemBus() gives the bus or raises DBusException.
ConnectBus ==
    /\ mainPc = "start_services"
    /\ \/ /\ mainLog' = Append(mainLog, Ev("dbus.SystemBus", "connected", 0))
          /\ mainPc' = "network"
       \/ /\ mainLog' = mainLog
                \o << Ev("dbus.SystemBus", "DBusException", 0),
                      Ev("UI.error",
                         "Cannot connect to DBus, services won't be started", 0) >>
          /\ mainPc' = AfterBusFailure
    /\ UNCHANGED defOthers

\* Lines 693-696: manage_service("NetworkManager", "ready"), a warning when
\* it raises.
StartNetwork ==
    /\ mainPc = "network"
    /\ \/ mainLog' = Append(mainLog, Ev("ready", "NetworkManager", 0))
       \/ mainLog' = Append(mainLog, Ev("UI.warn", "Unable to start network", 0))
    /\ mainPc' = "logger"
    /\ UNCHANGED defOthers

\* How often the loop of wait_bus("/dev/log", stream=False, timeout=15)
\* tries to connect before it gives up: timeout -= 0.1 in double arithmetic
\* leaves 3.6e-14 after 150 subtractions, so the body runs 151 times.
LoggerPolls == 151

\* Lines 699-700: rsyslog is started and wait_bus is entered.
StartLogger ==
    /\ mainPc = "logger"
    /\ mainLog' = Append(mainLog, Ev("start", "rsyslog", 0))
    /\ waitLeft' = LoggerPolls
    /\ waitTries' = 0
    /\ mainPc' = "wait_bus"
    /\ UNCHANGED defNoWait

\* wait_bus, lines 66-74: one turn of the loop.  sock.connect() succeeds and
\* wait_bus returns True, or it raises socket.error, the timeout is cut by
\* one poll interval and the interval is slept.
WaitBusPoll ==
    /\ mainPc = "wait_bus"
    /\ waitLeft > 0
    /\ \/ /\ mainLog' = Append(mainLog, Ev("wait_bus", "True", 0))
          /\ waitLeft' = 0
          /\ waitTries' = 0
          /\ mainPc' = "remote"
       \/ /\ waitLeft' = waitLeft - 1
          /\ waitTries' = waitTries + 1
          /\ UNCHANGED <<mainLog, mainPc>>
    /\ UNCHANGED defNoWait

\* start_services that gives up when the logger does not come up.
WaitTimeoutSkipsServices == "flush"

\* Lines 700-704: after the warning start_services goes on with
\* mount_remote_filesystems.
AfterWaitTimeout == "remote"

\* wait_bus, lines 66 and 76-77: the timeout is used up and wait_bus returns
\* False; start_services warns (lines 700-701).
WaitBusTimeout ==
    /\ mainPc = "wait_bus"
    /\ waitLeft <= 0
    /\ mainLog' = mainLog
          \o << Ev("wait_bus", "False", 0),
                Ev("UI.warn", "Cannot start system logger", 0) >>
    /\ waitLeft' = 0
    /\ waitTries' = 0
    /\ mainPc' = AfterWaitTimeout
    /\ UNCHANGED defNoWait

\* mount_remote_filesystems, lines 1031-1037.
MountRemoteFilesystems ==
    /\ mainPc = "remote"
    /\ \E remote \in BOOLEAN :
          mainLog' = mainLog \o << Stage("mount_remote_filesystems") >>
                     \o (IF remote THEN << Ev("start", "netfs", 0) >> ELSE <<>>)
    /\ mainPc' = "services"
    /\ UNCHANGED defOthers

\* get_service_list that returns every service of the bus.
GetServiceListAll(all) == svcBus

\* get_service_list(bus, _all): the services the bus lists, for _all=False
\* only those that are in the enabled or the conditional directory.
get_service_list(all) ==
    IF all THEN svcBus
    ELSE (svcEnabled \cup svcConditional) \cap svcBus

RECURSIVE ReadyEvents(_)
ReadyEvents(services) ==
    IF services = <<>> THEN <<>>
    ELSE << Ev("ready", Head(services), 0) >> \o ReadyEvents(Tail(services))

\* The splash stopped for xorg=off alone.
StopPlymouthXorgOnly(xorgOff, runHead) == xorgOff

\* Lines 718-719: stop_plymouth = "off" in get_kernel_option("xorg") or not
\* run_head_start.
StopPlymouth(xorgOff, runHead) == xorgOff \/ ~runHead

\* Lines 706-733: outside safe mode the services of the list but rsyslog and
\* NetworkManager are made ready, head_start first and the others in the
\* order the set gives them, and plymouth is stopped when xorg=off is on the
\* command line or there was no head start; get_service_list raises when
\* the service manager does not answer.  Then the bus is closed.
StartOthers ==
    /\ mainPc = "services"
    /\ IF Truthy(Get(options, "safe"))
       THEN /\ mainLog' = Append(mainLog, Ev("bus", "close", 0))
            /\ mainPc' = "flush"
       ELSE \/ /\ mainLog' = Append(mainLog,
                                    Ev("get_service_list", "DBusException", 0))
               /\ mainPc' = "except_hook"
            \/ \E xorgOff \in BOOLEAN :
                 LET services   == get_service_list(FALSE)
                                      \ {"rsyslog", "NetworkManager"}
                     head_start == Get(options, "head_start")
                     runHead    == Truthy(head_start) /\ head_start.v \in services
                     others     == IF runHead THEN services \ {head_start.v}
                                   ELSE services
                 IN  \E order \in DistinctSeqsUpTo(others, Cardinality(others)) :
                        /\ Len(order) = Cardinality(others)
                        /\ mainLog' = mainLog
                              \o << Ev("get_kernel_option",
                                       IF xorgOff THEN "xorg=off" ELSE "", 0) >>
                              \o (IF runHead
                                  THEN << Ev("ready", head_start.v, 0) >>
                                  ELSE <<>>)
                              \o ReadyEvents(order)
                              \o (IF StopPlymouth(xorgOff, runHead)
                                  THEN << Ev("splash", "quit", 0) >>
                                  ELSE <<>>)
                              \o << Ev("bus", "close", 0) >>
                        /\ mainPc' = "flush"
    /\ UNCHANGED defOthers

\* Lines 1507-1510: the log is flushed and main() returns.
DefaultFlush ==
    /\ mainPc = "flush"
    /\ mainPc' = "done"
    /\ UNCHANGED mainLog
    /\ UNCHANGED defOthers

\* except_hook: the traceback, then the rescue shell.
DefaultExceptHook ==
    /\ mainPc = "except_hook"
    /\ mainLog' = Append(mainLog, Run("sulogin", 0))
    /\ mainPc' = "exited"
    /\ UNCHANGED defOthers

\* The configurations the default runlevel is run under: the defaults, safe
\* mode and a head start for kdm.
DefaultBoots ==
    { [cmd |-> NoMudurArgs, file |-> NoCfgFile],
      [cmd  |-> [readable |-> TRUE, mudur |-> << Arg("safe", FALSE, "") >>],
       file |-> NoCfgFile],
      [cmd  |-> NoMudurArgs,
       file |-> [lines |-> << CfgLine("kv", "head_start", "'", "kdm") >>,
                 readable |-> TRUE, exists |-> TRUE]] }

\* The service lists of the bus and of the two directories.
SvcBusLists ==
    { {"sshd", "kdm", "cups", "rsyslog", "NetworkManager"},
      {"sshd", "cups", "rsyslog"}, {} }

SvcEnabledLists == { {"sshd", "kdm", "rsyslog"}, {"cups", "acpid"}, {} }

SvcConditionalLists == { {"NetworkManager", "sshd"}, {"kdm"}, {} }

DefaultInit ==
    /\ \E b \in DefaultBoots : cfgFile = b.file /\ cmdline = b.cmd
    /\ forcefsckFile = FALSE
    /\ livemedia = FALSE
    /\ ConfigResolved
    /\ StopIdle
    /\ SysIdle
    /\ CgIdle
    /\ HostIdle
    /\ MtabFilesPlain
    /\ bootDir = NoBootDir
    /\ HdparmIdle
    /\ svcBus \in SvcBusLists
    /\ svcEnabled \in SvcEnabledLists
    /\ svcConditional \in SvcConditionalLists
    /\ grubDefault = NoFile
    /\ kexecTool = FALSE
    /\ kexecConf = NoFile
    /\ kexecLoaded = "0"
    /\ waitLeft = 0
    /\ waitTries = 0
    /\ argv = "default"
    /\ mainPc = "start"
    /\ shouldKexec = FALSE
    /\ mainLog = <<>>

DefaultNext ==
    \/ DefaultBegin
    \/ ConnectBus
    \/ StartNetwork
    \/ StartLogger
    \/ WaitBusPoll
    \/ WaitBusTimeout
    \/ MountRemoteFilesystems
    \/ StartOthers
    \/ DefaultFlush
    \/ DefaultExceptHook

\* The process is never suspended for ever: a step that can be taken is
\* taken.
SpecDefault == DefaultInit /\ [][DefaultNext]_vars /\ WF_vars(DefaultNext)


-----------------------------------------------------------------------------
(* Properties of stop_system (checked under SpecStop).                     *)

IsLadderAttempt(c) == c.cmd \in {"mount -n -o remount,ro", "umount -n -r"}

\* The attempts of the root-remount ladder, in the order made.
LadderAttempts == SelectSeq(cmds, IsLadderAttempt)

IsKillAll(c) == c.cmd = "killall5 -9"

KillAlls == Len(SelectSeq(cmds, IsKillAll))

FailedLadderAttempts ==
    Cardinality({ i \in DOMAIN LadderAttempts : LadderAttempts[i].rc # 0 })

IsPlainUmount(c) == c.cmd = "umount"

\* The mountpoints of the plain unmount attempts, in the order made.
UmountOrder ==
    LET us == SelectSeq(cmds, IsPlainUmount)
    IN  [i \in DOMAIN us |-> us[i].path]

\* get_fs_entries has run and the unmount loop is over.
LoopFinished ==
    /\ umountIdx = Len(fsEntries)
    /\ \/ stopPc \in {"unmount", "remount_1", "remount_2", "remount_3",
                      "except_hook", "aborted"}
       \/ stopPc = "done" /\ Get(options, "lxc_guest") # S("yes")

C2_LadderOrder ==
    /\ Len(LadderAttempts) <= 3
    /\ \A i \in DOMAIN LadderAttempts :
          /\ LadderAttempts[i].cmd =
                 (IF i = 3 THEN "umount -n -r" ELSE "mount -n -o remount,ro")
          /\ LadderAttempts[i].path = P_root
          /\ i < Len(LadderAttempts) => LadderAttempts[i].rc # 0

C2_SecondRemountSucceeded ==
    /\ stopPc = "done"
    /\ Len(LadderAttempts) = 2
    /\ LadderAttempts[1].rc # 0
    /\ LadderAttempts[2].rc = 0

\* The live mounts read are non-virtual mounts at /data, /data/nested and
\* /mnt (and nothing else but root).
C3_Given ==
    /\ LoopFinished
    /\ \A e \in Range(mountsRead) :
          e.mp = P_root \/ (e.dev \in {"/dev/sda2", "/dev/sda3", "/dev/sdb1"})
    /\ { e.mp : e \in { x \in Range(mountsRead) : x.mp # P_root } }
           = {P_data, P_nested, P_mnt}

\* C3 as claimed: the unmounts are attempted in the order /data/nested,
\* /data, /mnt.
C3_DeepestFirstOrder ==
    C3_Given => UmountOrder = <<P_nested, P_data, P_mnt>>

\* C3 amended: the unmounts are attempted in descending string order of the
\* mountpoints, which is /mnt, /data/nested, /data.
C3_DescendingOrder ==
    C3_Given => UmountOrder = <<P_mnt, P_nested, P_data>>

C3_ThreeMountsUnmounted ==
    C3_Given /\ Len(UmountOrder) = 3

\* c is a path nested below p: p, a "/", and more.
NestedBelow(c, p) ==
    /\ Len(c) > Len(p) + 1
    /\ IsPrefix(p, c)
    /\ c[Len(p) + 1] = "/"

\* C4: when the unmount of a selected mountpoint is attempted, the unmount
\* of every selected mountpoint nested below it has been attempted before;
\* and the loop attempts every selected mountpoint.
C4_NestedBeforeParent ==
    /\ \A i \in DOMAIN UmountOrder :
          \A e \in Range(fsEntries) :
              NestedBelow(e.mp, UmountOrder[i])
                  => \E j \in 1..(i - 1) : UmountOrder[j] = e.mp
    /\ LoopFinished
          => \A e \in Range(fsEntries) : e.mp \in Range(UmountOrder)

C4_ParentAndChildUnmounted ==
    /\ LoopFinished
    /\ \E i, j \in DOMAIN UmountOrder :
          /\ i < j
          /\ NestedBelow(UmountOrder[i], UmountOrder[j])
    /\ \E i, j \in DOMAIN mountsRead :
          /\ i < j
          /\ NestedBelow(mountsRead[j].mp, mountsRead[i].mp)
          /\ mountsRead[i] \in Range(fsEntries)
          /\ mountsRead[j] \in Range(fsEntries)

\* The filesystem types C5 lists.
C5_VirtualTypes ==
    {"proc", "devpts", "sysfs", "devtmpfs", "squashfs", "tmpfs", "rootfs",
     "debugfs", "cgroup", "configfs"}

\* C5 as claimed: outside guest mode the mountpoints with an unmount attempt
\* are exactly those of the live entries whose mountpoint is not / and whose
\* type is not one of the listed ones.
C5_AllNonVirtualNonRoot ==
    (LoopFinished /\ Get(options, "lxc_guest") = S("no"))
        => Range(UmountOrder) =
               { e.mp : e \in { x \in Range(mountsRead) :
                                  /\ x.mp # P_root
                                  /\ x.fstype \notin C5_VirtualTypes } }

\* C5 amended: ... and whose device field is not "none" and does not start
\* with "#"; each such entry gets exactly one plain unmount attempt.
C5_SelectedEntries ==
    { x \in Range(mountsRead) :
         /\ x.mp # P_root
         /\ x.fstype \notin C5_VirtualTypes
         /\ x.dev # "none"
         /\ x.dev # "#sshfs" }

C5_NonVirtualNonRootRealDevice ==
    (LoopFinished /\ Get(options, "lxc_guest") # S("yes"))
        => /\ Range(UmountOrder) = { e.mp : e \in C5_SelectedEntries }
           /\ Len(UmountOrder) = Cardinality(C5_SelectedEntries)

C5_NoneDeviceSkipped ==
    /\ LoopFinished
    /\ Get(options, "lxc_guest") # S("yes")
    /\ \E e \in Range(mountsRead) : e.dev = "none" /\ e.mp \notin Range(UmountOrder)
    /\ \E e \in Range(mountsRead) : e.mp = P_root /\ e.fstype = "ext4"
    /\ UmountOrder # <<>>


\* The step of stop_system a command belongs to, counted as the steps are
\* listed: 1 stop services, 2 stop D-Bus, 3 stop the device-event daemon,
\* 4 save clock, 5 unmount tmpfs, 6 disable swap, 7 shutdown audit record,
\* 8 unmount the selected filesystems, 10 root remount ladder (9 is the copy
\* of the mount table, which runs no command); 11 is the rescue shell of
\* except_hook.
StepOf(c) ==
    CASE c.cmd = "service stop"                   -> 1
      [] c.cmd = "start-stop-daemon --stop dbus"  -> 2
      [] c.cmd = "start-stop-daemon --stop udevd" -> 3
      [] c.cmd = "hwclock --systohc"              -> 4
      [] c.cmd = "umount -at tmpfs"               -> 5
      [] c.cmd = "swapoff -a"                     -> 6
      [] c.cmd = "halt -w"                        -> 7
      [] c.cmd \in {"umount", "fuser -k -9 -m", "sleep", "umount -f -r"} -> 8
      [] IsLadderAttempt(c) \/ IsKillAll(c)       -> 10
      [] OTHER                                    -> 11

StepsRun == { StepOf(cmds[i]) : i \in DOMAIN cmds }

\* /etc/mtab was written by the copy of line 1299 (the mount table always
\* has the line of the root).
MtabCopied == mtab # <<>>

\* C17: the commands of stop_system are issued in the order stop services,
\* stop D-Bus, stop the device-event daemon, save clock, unmount tmpfs,
\* disable swap, audit record, unmount the selected filesystems, root
\* remount ladder; the mount table is copied after the last unmount of the
\* loop returned (the copy is the table those unmounts left) and before the
\* first attempt of the ladder; and a pass outside guest mode that reaches
\* the end has run every step.
C17_StopSystemStepOrder ==
    /\ \A i, j \in DOMAIN cmds : i < j => StepOf(cmds[i]) <= StepOf(cmds[j])
    /\ MtabCopied => /\ Len(UmountOrder) = Len(fsEntries)
                     /\ mtab = procMounts
                     /\ 7 \in StepsRun
    /\ 10 \in StepsRun => MtabCopied
    /\ (stopPc = "done" /\ ~SkippedForGuests(options))
          => /\ {2, 3, 4, 5, 6, 7, 10} \subseteq StepsRun
             /\ fsEntries # <<>> => 8 \in StepsRun
             /\ MtabCopied
             /\ 11 \notin StepsRun

\* A pass outside guest mode came to the end with services stopped, a
\* filesystem unmounted and the ladder run.
C17_AllTenStepsRun ==
    /\ stopPc = "done"
    /\ ~SkippedForGuests(options)
    /\ {1, 2, 3, 4, 5, 6, 7, 8, 10} \subseteq StepsRun
    /\ MtabCopied


-----------------------------------------------------------------------------
(* Properties of the config resolution (checked under SpecConfig).         *)

\* What the sources say, as the claims read them: the keys and values of the
\* mudur= directive (a bare flag or an empty value is True), of the config
\* file, and the defaults.
KernelSays == get_kernel_option(cmdline)

\* The value of a directive token whose text after the colon is v.
KernelValue(v) == IF v # "" THEN S(v) ELSE PyTrue

FileSays == IF cfgFile.exists THEN load_config(cfgFile.lines) ELSE EmptyDict

\* cmdline (ks) over file (fs) over default, for key k.
ByPrecedence(ks, fs, k) ==
    IF k \in DOMAIN ks THEN KernelValue(ks[k])
    ELSE IF k \in DOMAIN fs THEN fs[k]
    ELSE DefaultOptions[k]

\* C9 as claimed: every option key resolves to the cmdline value if the
\* directive carries it, else to the file value if the file sets it, else
\* to the default.
C9_PrecedenceForEveryKey ==
    cfgPc = "resolved"
        => LET ks == KernelSays
               fs == FileSays
           IN  \A k \in (DOMAIN ks) \cup (DOMAIN fs) \cup (DOMAIN DefaultOptions) :
                  k \in DOMAIN options /\ options[k] = ByPrecedence(ks, fs, k)

\* The keys whose value Config computes after the merge.
C9_ComputedKeys == {"live", "forcefsck", "language", "keymap"}

\* C9 amended: the precedence holds for every key other than live,
\* forcefsck, language and keymap that the mudur= loop does not skip (it
\* skips the keys that are substrings of "thin").  For live and forcefsck a
\* cmdline token wins, and without one live is the thin/live-media test and
\* forcefsck the sentinel test, whatever the file says.  language is the
\* value by precedence when that names a known language and en otherwise;
\* keymap is the value by precedence when that is non-empty and the keymap
\* of the resolved language otherwise.
C9_PrecedenceButComputedKeys ==
    cfgPc = "resolved"
        => LET ks   == KernelSays
               fs   == FileSays
               lang == ByPrecedence(ks, fs, "language")
               kmap == ByPrecedence(ks, fs, "keymap")
           IN  /\ \A k \in ((DOMAIN ks) \cup (DOMAIN fs) \cup (DOMAIN DefaultOptions))
                             \ (C9_ComputedKeys \cup InThin) :
                     k \in DOMAIN options /\ options[k] = ByPrecedence(ks, fs, k)
               /\ options["live"] =
                     (IF "live" \in DOMAIN ks THEN KernelValue(ks["live"])
                      ELSE PyBool("thin" \in DOMAIN ks \/ livemedia))
               /\ options["forcefsck"] =
                     (IF "forcefsck" \in DOMAIN ks
                      THEN KernelValue(ks["forcefsck"])
                      ELSE PyBool(forcefsckFile))
               /\ options["language"] =
                     (IF HasLanguage(lang) THEN lang ELSE S("en"))
               /\ options["keymap"] =
                     (IF Truthy(kmap) THEN kmap
                      ELSE S(LanguageKeymap[options["language"].v]))

\* The file sets clock=UTC and the directive clock:local: local wins; and a
\* file-only key resolves to the file's value.
C9_CmdlineOverFile ==
    /\ cfgPc = "resolved"
    /\ "clock" \in DOMAIN FileSays
    /\ FileSays["clock"] = S("UTC")
    /\ "clock" \in DOMAIN KernelSays
    /\ options["clock"] = S("local")
    /\ "lxc_guest" \in DOMAIN FileSays
    /\ options["lxc_guest"] = S("yes")

\* C10 as claimed: forcefsck is true if and only if the sentinel file exists.
C10_ForcefsckIffSentinel ==
    cfgPc = "resolved" => (Truthy(options["forcefsck"]) <=> forcefsckFile)

\* C10 amended: whatever the config file says, forcefsck is the sentinel
\* test when the mudur= directive carries no forcefsck token; with such a
\* token forcefsck is true, sentinel or not.
C10_ForcefsckSentinelOrCmdline ==
    cfgPc = "resolved"
        => IF "forcefsck" \in DOMAIN KernelSays
           THEN Truthy(options["forcefsck"])
           ELSE options["forcefsck"] = PyBool(forcefsckFile)

\* The file says forcefsck=yes, there is no sentinel and no token: false.
C10_FileValueOverridden ==
    /\ cfgPc = "resolved"
    /\ "forcefsck" \in DOMAIN FileSays
    /\ Truthy(FileSays["forcefsck"])
    /\ "forcefsck" \notin DOMAIN KernelSays
    /\ ~forcefsckFile
    /\ options["forcefsck"] = PyFalse


\* C11 as claimed: when the merged language option is not a key of
\* LANGUAGES, the resolved language is en and the resolved keymap is the
\* keymap of en.
C11_UnknownLanguageEnAndEnKeymap ==
    cfgPc = "resolved"
        => LET ks == KernelSays
               fs == FileSays
           IN  ~HasLanguage(ByPrecedence(ks, fs, "language"))
                  => /\ options["language"] = S("en")
                     /\ options["keymap"] = S(LanguageKeymap["en"])

\* C11 amended: when the merged language option is not a key of LANGUAGES,
\* the resolved language is en; the resolved keymap is the keymap of en
\* when the merged keymap option is empty (None or ""), and the merged
\* keymap option itself otherwise.
C11_UnknownLanguageEnKeymapUnlessGiven ==
    cfgPc = "resolved"
        => LET ks   == KernelSays
               fs   == FileSays
               kmap == ByPrecedence(ks, fs, "keymap")
           IN  ~HasLanguage(ByPrecedence(ks, fs, "language"))
                  => /\ options["language"] = S("en")
                     /\ options["keymap"] =
                           (IF Truthy(kmap) THEN kmap
                            ELSE S(LanguageKeymap["en"]))

\* The file says language="xx", nothing gives a keymap: en and us.
C11_UnknownLanguageInFile ==
    /\ cfgPc = "resolved"
    /\ "language" \in DOMAIN FileSays
    /\ FileSays["language"] = S("xx")
    /\ "language" \notin DOMAIN KernelSays
    /\ "keymap" \notin (DOMAIN FileSays) \cup (DOMAIN KernelSays)
    /\ options["language"] = S("en")
    /\ options["keymap"] = S("us")


-----------------------------------------------------------------------------
(* Properties of sysinit (checked under SpecSysinit).                      *)

\* The events of stage procedure name: from its entry to the entry of the
\* next stage procedure (<<>> when it has not run).
StageSegment(name) ==
    LET at == { i \in DOMAIN sysLog : sysLog[i] = Stage(name) }
    IN  IF at = {} THEN <<>>
        ELSE LET i == CHOOSE x \in at : TRUE
                 later == { j \in DOMAIN sysLog :
                               j > i /\ sysLog[j].kind = "stage" }
                 last == IF later = {} THEN Len(sysLog)
                         ELSE (CHOOSE j \in later : \A k \in later : j <= k) - 1
             IN  SubSeq(sysLog, i, last)

CountOf(seq, e) == Cardinality({ i \in DOMAIN seq : seq[i] = e })

IsRootFsck(e) ==
    e.kind = "cmd" /\ e.what \in {"fsck -C -y -f /", "fsck -C -T -a /"}

IsAllFsck(e) ==
    e.kind = "cmd" /\ e.what \in {"fsck -C -R -A -a -f", "fsck -C -T -R -A -a"}

\* The segment ends with four bells one second apart, the ten seconds' wait
\* and reboot -f.
EndsWithBellsAndReboot(seg) ==
    /\ Len(seg) >= 13
    /\ LET tail == SubSeq(seg, Len(seg) - 11, Len(seg))
           quiet == SelectSeq(tail, LAMBDA e : e.kind # "warn")
       IN  quiet = << Ev("bell", "", 0), Ev("sleep", "1", 0),
                      Ev("bell", "", 0), Ev("sleep", "1", 0),
                      Ev("bell", "", 0), Ev("sleep", "1", 0),
                      Ev("bell", "", 0), Ev("sleep", "1", 0),
                      Ev("sleep", "10", 0), Run("reboot -f", 0) >>

\* C6: in check_root_filesystem the exit status of the checker decides: 0,
\* neither reboot nor rescue shell and the sequence goes on; 2 or 3, the
\* forced reboot exactly once, after four bells and the 10 s wait, and no
\* rescue shell; any other status, the rescue shell and no reboot.
C6_RootCheckExitCodePolicy ==
    LET seg  == StageSegment("check_root_filesystem")
        runs == SelectSeq(seg, IsRootFsck)
    IN  /\ Len(runs) <= 1
        /\ Len(runs) = 0
              => CountOf(seg, Run("reboot -f", 0)) + CountOf(seg, Run("sulogin", 0)) = 0
        /\ Len(runs) = 1 =>
             LET ret == runs[1].rc
             IN  /\ ret = 0 =>
                       /\ CountOf(seg, Run("reboot -f", 0)) = 0
                       /\ CountOf(seg, Run("sulogin", 0)) = 0
                       /\ sysLog[Len(sysLog)] = runs[1]
                             => (sysBlocked = "" /\ sysPc = "mount_root_filesystem")
                 /\ ret \in {2, 3} =>
                       /\ CountOf(seg, Run("reboot -f", 0)) = 1
                       /\ CountOf(seg, Run("sulogin", 0)) = 0
                       /\ CountOf(seg, Ev("bell", "", 0)) = 4
                       /\ EndsWithBellsAndReboot(seg)
                 /\ ret \notin {0, 2, 3} =>
                       /\ CountOf(seg, Run("sulogin", 0)) = 1
                       /\ CountOf(seg, Run("reboot -f", 0)) = 0
                       /\ seg[Len(seg)] = Run("sulogin", 0)

C6_RootCheckReturned3 ==
    LET runs == SelectSeq(StageSegment("check_root_filesystem"), IsRootFsck)
    IN  /\ Len(runs) = 1
        /\ runs[1].rc = 3
        /\ sysBlocked = "reboot -f"

\* C7: in check_filesystems status 2 or 3 only logs a warning and the
\* sequence goes on with neither reboot nor rescue shell, 0 goes on
\* silently, any other status invokes the rescue shell; the root check
\* answers 2 and 3 with the forced reboot instead.
C7_AllCheckExitCodePolicy ==
    LET seg  == StageSegment("check_filesystems")
        runs == SelectSeq(seg, IsAllFsck)
        root == StageSegment("check_root_filesystem")
        rootRuns == SelectSeq(root, IsRootFsck)
    IN  /\ Len(runs) <= 1
        /\ Len(runs) = 1 =>
             LET ret == runs[1].rc
                 said == { i \in DOMAIN seg : seg[i].kind \in {"warn", "error"} }
             IN  /\ CountOf(seg, Run("reboot -f", 0)) = 0
                 /\ ret = 0 =>
                       /\ said = {}
                       /\ CountOf(seg, Run("sulogin", 0)) = 0
                 /\ ret \in {2, 3} =>
                       /\ CountOf(seg, Ev("warn", "Filesystem errors corrected", 0)) = 1
                       /\ CountOf(seg, Run("sulogin", 0)) = 0
                 /\ (ret \in {0, 2, 3} /\ sysLog[Len(sysLog)] \in {runs[1],
                          Ev("warn", "Filesystem errors corrected", 0)})
                       => (sysBlocked = "" /\ sysPc = "mount_local_filesystems")
                 /\ ret \notin {0, 2, 3} =>
                       /\ CountOf(seg, Run("sulogin", 0)) = 1
                       /\ seg[Len(seg)] = Run("sulogin", 0)
        /\ (Len(rootRuns) = 1 /\ rootRuns[1].rc \in {2, 3})
              => /\ CountOf(root, Run("reboot -f", 0)) = 1
                 /\ CountOf(root, Ev("warn", "Filesystem errors corrected", 0)) = 0

C7_AllCheckReturned3 ==
    LET runs == SelectSeq(StageSegment("check_filesystems"), IsAllFsck)
    IN  /\ Len(runs) = 1
        /\ runs[1].rc = 3
        /\ sysPc = "done"
        /\ CountOf(sysLog, Run("sulogin", 0)) = 0

\* C8: once the rescue shell or the forced reboot of the root check has been
\* invoked, no later stage procedure and no later external command of the
\* sysinit invocation is executed.
C8_RescueShellAndRebootAreTerminal ==
    \A i \in DOMAIN sysLog :
        sysLog[i] \in {Run("sulogin", 0), Run("reboot -f", 0)}
            => i = Len(sysLog)


\* Where event e is in the sysinit log (the empty set when it is not).
PlacesOf(e) == { i \in DOMAIN sysLog : sysLog[i] = e }

LocalMount == Run("mount -at noproc,nocifs,nonfs,nonfs4,noncpfs", 0)

CgBegin == Ev("cgroupfs", "begin", 0)

CgEnd == Ev("cgroupfs", "end", 0)

\* C16 as claimed: in every sysinit pass the bootstrap runs exactly once and
\* has finished before the local-filesystems mount is issued.
C16_BootstrapBeforeLocalMounts ==
    /\ \A i \in PlacesOf(LocalMount) : \E j \in PlacesOf(CgEnd) : j < i
    /\ Cardinality(PlacesOf(CgBegin)) <= 1
    /\ sysPc = "done" => Cardinality(PlacesOf(CgBegin)) = 1

\* C16 amended: in a sysinit pass with lxc_guest = no the bootstrap is
\* started exactly once, by mount_tmpfs_run after the local-filesystems
\* mount was issued, and it has finished before enable_swap runs (when it
\* exits the process, no later stage runs); in a pass with any other
\* lxc_guest value it is not started at all.
C16_BootstrapOnceAfterLocalMounts ==
    /\ Cardinality(PlacesOf(CgBegin)) <= 1
    /\ Cardinality(PlacesOf(CgEnd)) <= 1
    /\ \A i \in PlacesOf(CgBegin) : \E j \in PlacesOf(LocalMount) : j < i
    /\ \A i \in PlacesOf(CgEnd) : \E j \in PlacesOf(CgBegin) : j < i
    /\ \A i \in PlacesOf(Stage("enable_swap")) : \E j \in PlacesOf(CgEnd) : j < i
    /\ SkippedForGuests(options) => PlacesOf(CgBegin) = {}
    /\ (sysPc = "done" /\ ~SkippedForGuests(options))
          => /\ Cardinality(PlacesOf(CgBegin)) = 1
             /\ Cardinality(PlacesOf(CgEnd)) = 1
    /\ cgPc = "exited"
          => /\ sysPc = "cgroupfs"
             /\ sysLog[Len(sysLog)] = CgBegin
    /\ PlacesOf(CgBegin) = {} => cgLog = <<>>

\* A pass finished in which the bootstrap mounted the hierarchy after the
\* local mounts.
C16_PassWithBootstrapDone ==
    /\ sysPc = "done"
    /\ \E i \in PlacesOf(LocalMount), j \in PlacesOf(CgBegin), k \in PlacesOf(CgEnd) :
          i < j /\ j < k
    /\ \E i \in DOMAIN cgLog : cgLog[i].kind = "mount" /\ cgLog[i].rc = 0


-----------------------------------------------------------------------------
(* Properties of the cgroup bootstrap (checked under SpecCgroup).          *)

IsCgMount(e) == e.kind = "mount"

\* The mount commands of the Cgroupfs() call that is running or ran last.
RunMounts == SelectSeq(cgLog, LAMBDA e : e.run = cgRun /\ IsCgMount(e))

\* The controller mounts among them.
RunControllerMounts == SelectSeq(RunMounts, LAMBDA e : e.what # CgRoot)

\* C12: the bootstrap exits with a non-zero status, before any mount, whenever
\* /etc/fstab holds a non-comment line mounting a cgroup filesystem, and the
\* fstab guard does not fail when fstab holds no such line.
C12_CgroupLineInFstabHardFails ==
    cgPc \notin {"idle", "start"}
        => IF HasCgroupLine(cgEnv.fstab)
           THEN /\ cgPc = "exited"
                /\ cgExit # 0
                /\ Len(RunMounts) = 0
           ELSE \A i \in DOMAIN cgLog :
                   ~(cgLog[i].kind = "guard" /\ cgLog[i].what = "check_fstab"
                        /\ cgLog[i].rc # 0)

\* The first of the three guards that is unmet, in the order claimed.
FirstUnmetGuard ==
    IF HasCgroupLine(cgEnv.fstab) THEN "check_fstab"
    ELSE IF ~cgEnv.kernel THEN "kernel_support"
    ELSE IF ~cgEnv.sysfs THEN "check_sysfs"
    ELSE "none"

\* C13: each of the three precondition failures (cgroup line in fstab, no
\* /proc/cgroups, no /sys/fs/cgroup directory) ends the process with its own
\* non-zero status, the statuses differ, the guards are evaluated in that
\* order, and then no mount has been performed.
C13_ThreeGuardsThreeStatuses ==
    LET status == [g \in {"check_fstab", "kernel_support", "check_sysfs"} |->
                      CASE g = "check_fstab"    -> ExitStatus(-1)
                        [] g = "kernel_support" -> ExitStatus(-2)
                        [] g = "check_sysfs"    -> ExitStatus(-3)]
        before == [g \in {"check_fstab", "kernel_support", "check_sysfs"} |->
                      CASE g = "check_fstab"    -> {"idle", "start"}
                        [] g = "kernel_support" -> {"idle", "start", "kernel_support"}
                        [] g = "check_sysfs"    -> {"idle", "start", "kernel_support",
                                                    "check_sysfs"}]
    IN  /\ \A g \in DOMAIN status : status[g] # 0
        /\ \A g, h \in DOMAIN status : g # h => status[g] # status[h]
        /\ (FirstUnmetGuard # "none" /\ cgPc \notin before[FirstUnmetGuard])
              => /\ cgPc = "exited"
                 /\ cgExit = status[FirstUnmetGuard]
                 /\ Len(RunMounts) = 0

\* The hierarchy was fully mounted when this call began: the root and every
\* enabled controller of /proc/cgroups.
FullyMountedBefore ==
    /\ CgRoot \in cgBefore
    /\ \A c \in DOMAIN cgEnv.cgroups : cgEnv.cgroups[c] = 1 => c \in cgBefore

\* C14: a Cgroupfs() call on a hierarchy where the root and every enabled
\* controller are already mounted (the second call after a first that
\* mounted them all, in particular) issues no mount command and leaves the
\* mounts as they were.
C14_NoMountOnMountedHierarchy ==
    (cgPc # "idle" /\ FullyMountedBefore)
        => /\ Len(RunMounts) = 0
           /\ cgMounted = cgBefore

\* The second call has finished without a mount; the first one mounted the
\* root and a controller.
C14_SecondRunFinished ==
    /\ cgRun = 2
    /\ cgPc = "finished"
    /\ FullyMountedBefore
    /\ Len(RunMounts) = 0
    /\ \E i, j \in DOMAIN cgLog :
          /\ cgLog[i].run = 1 /\ IsCgMount(cgLog[i]) /\ cgLog[i].what = CgRoot
          /\ cgLog[j].run = 1 /\ IsCgMount(cgLog[j]) /\ cgLog[j].what # CgRoot

\* C15: in one Cgroupfs() call a mount is issued for a controller only if
\* its enabled flag is 1 and it was not mounted at /sys/fs/cgroup/<name>,
\* never twice for one controller, and once the call has finished a mount
\* has been issued for every such controller.
C15_MountIffEnabledAndNotMounted ==
    LET names == { RunControllerMounts[i].what : i \in DOMAIN RunControllerMounts }
        due   == { c \in DOMAIN cgEnv.cgroups :
                      cgEnv.cgroups[c] = 1 /\ c \notin cgBefore }
    IN  /\ names \subseteq due
        /\ Len(RunControllerMounts) = Cardinality(names)
        /\ cgPc = "finished" => names = due

\* A call finished that found one controller disabled and one enabled and
\* not mounted, and issued the one mount.
C15_OneOfTwoMounted ==
    /\ cgPc = "finished"
    /\ \E c, d \in DOMAIN cgEnv.cgroups :
          /\ cgEnv.cgroups[c] = 0
          /\ cgEnv.cgroups[d] = 1
          /\ d \notin cgBefore
          /\ Len(RunControllerMounts) = 1
          /\ RunControllerMounts[1].what = d


-----------------------------------------------------------------------------
(* Properties of reboot and shutdown (checked under SpecHalt).             *)

\* The command that restarts or halts the machine was issued, or kexec -e
\* started the loaded kernel.
FinalIssued ==
    \/ mainPc = "kexec_jumped"
    \/ \E i \in DOMAIN cmds :
          cmds[i].cmd = (IF argv = "reboot" THEN "reboot -idp" ELSE "halt -ihdp")

\* C18 as claimed: in every reboot or shutdown invocation, whatever the
\* commands of the unwinder return, the final reboot or halt command is
\* eventually issued (a kexec jump counted as the restart).
C18_FinalCommandEventuallyIssued == <>FinalIssued


-----------------------------------------------------------------------------
(* Properties of set_hostname (checked under SpecHostname).                *)

\* new is old with one occurrence of the text from replaced by the text to.
OnlyValueReplaced(old, new, from, to) ==
    \E k \in 0..Len(old) :
       /\ k + Len(from) <= Len(old)
       /\ SubSeq(old, k + 1, k + Len(from)) = from
       /\ new = SubSeq(old, 1, k) \o to \o SubSeq(old, k + Len(from) + 1, Len(old))

HasNoQuoteOrLineBreak(host) ==
    \A i \in DOMAIN host : host[i] \notin { "\"", "\n" }

\* C19 as claimed: after set_hostname wrote the file with hostname h,
\* parsing the file yields h, and the file is the file found with only the
\* hostname replaced.
C19_RoundTripAndRestUnchanged ==
    (hostPc = "done" /\ hostWrote)
       => /\ ParseHostname(LoadFileText(hostFile)) = hostSet
          /\ OnlyValueReplaced(hostBefore, hostFile,
                               ParseHostname(LoadFileText(hostBefore)), hostSet)

\* C19 amended: after set_hostname wrote the file with hostname h, the file
\* is what load_file returned for the file found (its lines that are not
\* empty and do not start with "#") with only the text between the quotes
\* replaced by h; and when h has no double quote and no line break, parsing
\* the file yields h.
C19_RoundTripWithoutQuote ==
    (hostPc = "done" /\ hostWrote)
       => LET before == LoadFileText(hostBefore)
          IN  /\ hostSet = kernelHost
              /\ OnlyValueReplaced(before, hostFile, ParseHostname(before), hostSet)
              /\ HasNoQuoteOrLineBreak(hostSet)
                    => ParseHostname(LoadFileText(hostFile)) = hostSet

\* A file with a comment line was rewritten with a hostname that has no
\* quote.
C19_FileRewritten ==
    /\ hostPc = "done"
    /\ hostWrote
    /\ HasNoQuoteOrLineBreak(hostSet)
    /\ hostFile # hostBefore
    /\ \E i \in DOMAIN hostBefore : hostBefore[i] = "#"


-----------------------------------------------------------------------------
(* Properties of the default runlevel (checked under SpecDefault).         *)

BusFailed == \E i \in DOMAIN mainLog : mainLog[i] = Ev("dbus.SystemBus", "DBusException", 0)

\* After the failed connection: the error is logged next, no service is
\* started or made ready, mount_remote_filesystems is not called, the rescue
\* shell is not run, and main() has only its end left.
BusFailureHandled ==
    /\ \A i \in DOMAIN mainLog :
          mainLog[i] = Ev("dbus.SystemBus", "DBusException", 0)
             => /\ i < Len(mainLog)
                /\ mainLog[i + 1].kind = "UI.error"
    /\ \A i \in DOMAIN mainLog :
          /\ mainLog[i].kind \notin {"start", "ready"}
          /\ mainLog[i] # Stage("mount_remote_filesystems")
          /\ mainLog[i] # Run("sulogin", 0)
    /\ mainPc \in {"flush", "done"}

\* C20: when the connection to the system bus fails in start_services, an
\* error is logged and the procedure returns without a service start or
\* ready command and without mounting remote filesystems, and the default
\* runlevel then completes without the rescue shell.
C20_BusFailureReturnsEarly ==
    /\ [](BusFailed => BusFailureHandled)
    /\ BusFailed ~> (mainPc = "done" /\ BusFailureHandled)

\* The default runlevel came to its end after the connection had failed.
C20_CompletedWithoutBus ==
    /\ BusFailed
    /\ mainPc = "done"


\* The service commands of the log, in the order issued.
IsServiceCmd(e) == e.kind \in {"start", "ready"}

ServiceCmds == SelectSeq(mainLog, IsServiceCmd)

\* The candidate set: the services of the bus that are enabled or
\* conditional, without the logger and the network manager.
Candidates ==
    ((svcEnabled \cup svcConditional) \cap svcBus) \ {"rsyslog", "NetworkManager"}

\* start_services ran to its end outside safe mode.
ServicesStarted ==
    /\ mainPc \in {"flush", "done"}
    /\ ~BusFailed
    /\ ~Truthy(Get(options, "safe"))

\* C21: the service commands are issued in the order network manager
\* ready, logger start, netfs start of the remote-filesystem step, the
\* head-start service ready when it is configured and a candidate, then the
\* other candidates; when start_services has run to its end outside safe
\* mode every candidate was readied exactly once and nothing else was.
C21_ServiceCommandOrder ==
    LET cmdsOf  == ServiceCmds
        fixed   == { Ev("ready", "NetworkManager", 0), Ev("start", "rsyslog", 0),
                     Ev("start", "netfs", 0) }
        rank(e) == CASE e = Ev("ready", "NetworkManager", 0) -> 1
                     [] e = Ev("start", "rsyslog", 0)        -> 2
                     [] e = Ev("start", "netfs", 0)          -> 3
                     [] OTHER                                -> 4
        cands   == SelectSeq(cmdsOf, LAMBDA e : e \notin fixed)
        head    == Get(options, "head_start")
    IN  /\ \A i, j \in DOMAIN cmdsOf : i < j => rank(cmdsOf[i]) <= rank(cmdsOf[j])
        /\ \A i \in DOMAIN cands :
              /\ cands[i].kind = "ready"
              /\ cands[i].what \in Candidates
        /\ \A i, j \in DOMAIN cands : i # j => cands[i] # cands[j]
        /\ \A i \in DOMAIN cands :
              (cands[i].what = head.v /\ Truthy(head)) => i = 1
        /\ cands # <<>> =>
              \E i \in DOMAIN mainLog :
                 /\ mainLog[i] = Stage("mount_remote_filesystems")
                 /\ \A j \in DOMAIN mainLog :
                       mainLog[j] \in Range(cands) => i < j
        /\ ServicesStarted =>
              /\ { cands[i].what : i \in DOMAIN cands } = Candidates
              /\ Ev("start", "rsyslog", 0) \in Range(cmdsOf)

\* start_services ran to its end with the head-start service and another
\* candidate readied, and with a service on the bus that is no candidate.
C21_HeadStartAndOthersReadied ==
    /\ ServicesStarted
    /\ mainPc = "done"
    /\ Get(options, "head_start") = S("kdm")
    /\ {"kdm", "sshd"} \subseteq Candidates
    /\ "cups" \in svcBus \ Candidates
    /\ Ev("ready", "NetworkManager", 0) \in Range(mainLog)


WaitFailed == Ev("wait_bus", "False", 0) \in Range(mainLog)

\* wait_bus leaves its loop in this step.
WaitBusReturns == mainPc = "wait_bus" /\ mainPc' # "wait_bus"

\* C22: wait_bus always terminates: the failed connects and the polls left
\* add up to the number fixed by timeout and poll interval, it returns True
\* at a successful connect and False only when all polls are used up; after
\* False start_services warns and the remote-filesystem step and the
\* readying of the services are still run.
C22_WaitBusBoundedAndNotFatal ==
    /\ [](mainPc = "wait_bus"
            => /\ waitLeft >= 0
               /\ waitTries + waitLeft = LoggerPolls)
    /\ [][WaitBusReturns
            => \/ /\ mainLog' = Append(mainLog, Ev("wait_bus", "True", 0))
                  /\ waitLeft > 0
               \/ /\ mainLog' = mainLog
                        \o << Ev("wait_bus", "False", 0),
                              Ev("UI.warn", "Cannot start system logger", 0) >>
                  /\ waitTries = LoggerPolls]_vars
    /\ (mainPc = "wait_bus") ~> (mainPc = "remote")
    /\ [](WaitFailed /\ mainPc \in {"services", "flush", "done", "except_hook", "exited"}
            => Stage("mount_remote_filesystems") \in Range(mainLog))
    /\ [](WaitFailed /\ ServicesStarted
            => { e.what : e \in { x \in Range(mainLog) : x.kind = "ready" } }
                  \ {"NetworkManager"} = Candidates)
    /\ WaitFailed ~> (mainPc \in {"done", "exited"})

\* The logger never came up and a candidate was readied all the same.
C22_TimedOutAndServicesReadied ==
    /\ WaitFailed
    /\ mainPc = "done"
    /\ Candidates # {}
    /\ ServicesStarted


-----------------------------------------------------------------------------
(* Properties of kexec at reboot and shutdown (checked under SpecKexec).   *)

KexecLoadIssued == \E i \in DOMAIN cmds : cmds[i].cmd = "kexec --load"

KexecJumpIssued == \E i \in DOMAIN cmds : cmds[i].cmd = "kexec -e"

\* Everything load_kexec_image asks for but the check of the default-entry
\* file: no guest, the tool, the config file, the switch of the stage.
KexecSetUp ==
    /\ ~SkippedForGuests(options)
    /\ kexecTool
    /\ kexecConf # NoFile
    /\ \/ argv = "reboot" /\ kexecConf[1] = "yes"
       \/ argv = "shutdown" /\ kexecConf[2] = "yes"

\* The default-entry file holds an integer with the 0x4000 bit set.
FlagBitSet ==
    /\ grubDefault[1] = "int"
    /\ grubDefault[2] % 32768 >= 16384

\* C23 as claimed: with kexec set up, load_kexec_image issues no kexec
\* --load and returns not-loaded exactly when the 0x4000 bit is set in the
\* integer of the default-entry file.
C23_InhibitedIffFlagBitSet ==
    (mainPc # "start" /\ KexecSetUp /\ grubDefault # << "text" >>)
       => /\ KexecLoadIssued <=> ~FlagBitSet
          /\ FlagBitSet => ~shouldKexec

\* C23 amended: with kexec set up and a default-entry file that is absent,
\* empty or holds an integer n, load_kexec_image issues no kexec --load and
\* returns not-loaded exactly when n is negative or 0x4000 <= n < 0x8000
\* (for 0 <= n < 0x8000: exactly when the 0x4000 bit is set).
C23_InhibitedIffXorBelowFlag ==
    (mainPc # "start" /\ KexecSetUp /\ grubDefault # << "text" >>)
       => LET inhibited ==
                 /\ grubDefault[1] = "int"
                 /\ \/ grubDefault[2] < 0
                    \/ grubDefault[2] >= 16384 /\ grubDefault[2] < 32768
          IN  /\ KexecLoadIssued <=> ~inhibited
              /\ inhibited => ~shouldKexec
              /\ (grubDefault[1] = "int" /\ grubDefault[2] >= 0
                     /\ grubDefault[2] < 32768) => (inhibited <=> FlagBitSet)

\* kexec was set up and the flag of the default entry 3 inhibited it.
C23_InhibitedByFlag ==
    /\ mainPc = "halted"
    /\ KexecSetUp
    /\ grubDefault = << "int", 16387 >>
    /\ kexecLoaded = "1"
    /\ ~KexecLoadIssued

\* The commands that end the run without kexec.
IsFinalCmd(c) == c.cmd \in {"reboot -idp", "reboot -f", "halt -ihdp", "halt -f"}

\* What the claim asks for the jump: no guest, no inhibition by the default
\* entry, the tool, the config file, the switch of the stage, and
\* kexec_loaded holding 1 after the load.
KexecConditions ==
    /\ ~SkippedForGuests(options)
    /\ \/ grubDefault \in {NoFile, << "empty" >>}
       \/ /\ grubDefault[1] = "int"
          /\ grubDefault[2] >= 0
          /\ ~(grubDefault[2] >= 16384 /\ grubDefault[2] < 32768)
    /\ kexecTool
    /\ kexecConf # NoFile
    /\ \/ argv = "reboot" /\ kexecConf[1] = "yes"
       \/ argv = "shutdown" /\ kexecConf[2] = "yes"
    /\ kexecLoaded = "1"

\* C24: kexec -e is issued only when the process is no guest, kexec is not
\* inhibited, the tool and the config file exist, the switch of the stage is
\* on and the kernel reports a loaded image; once stop_system has returned
\* it is issued whenever these hold; and it stands after every command of
\* stop_system and before every reboot or halt command.
C24_KexecJumpIffConditions ==
    /\ KexecJumpIssued => KexecConditions /\ KexecLoadIssued /\ stopPc = "done"
    /\ (mainPc \in {"final", "halted", "kexec_jumped"} /\ KexecConditions)
          => KexecJumpIssued
    /\ \A j \in DOMAIN cmds :
          cmds[j].cmd = "kexec -e"
             => /\ \A i \in 1..(j - 1) : ~IsFinalCmd(cmds[i])
                /\ \A i \in (j + 1)..Len(cmds) : IsFinalCmd(cmds[i])
                /\ \E i \in 1..(j - 1) : cmds[i].cmd = "kexec --load"

\* A shutdown whose kexec -e failed after stop_system unmounted a
\* filesystem, and which went on to halt.
C24_JumpFailedThenHalt ==
    /\ mainPc = "halted"
    /\ argv = "shutdown"
    /\ \E j \in DOMAIN cmds :
          /\ cmds[j].cmd = "kexec -e"
          /\ cmds[j].rc = 32
          /\ j > 2
          /\ j + 2 = Len(cmds)
          /\ cmds[j + 1].cmd = "halt -ihdp"


-----------------------------------------------------------------------------
(* Properties of set_clock and save_clock (checked under SpecClock).       *)

\* The option the clock setting asks for.
ExpectedClockOption ==
    IF options["clock"] = S("UTC") THEN "--utc" ELSE "--localtime"

\* The hwclock commands of set_clock in the boot log.
SetClockCmds ==
    { i \in DOMAIN sysLog :
        /\ sysLog[i].kind = "cmd"
        /\ sysLog[i].what \in
              { "hwclock " \o m \o " " \o o :
                   m \in {"--hctosys", "--adjust", "--noadjfile"},
                   o \in {"--utc", "--localtime"} } }

SaveClockCmds == { i \in DOMAIN cmds : cmds[i].cmd = "hwclock --systohc" }

\* C25: every hwclock command of set_clock and of save_clock carries --utc
\* when the clock option is UTC and --localtime otherwise, both procedures
\* issue their synchronisation when they are not skipped, and save_clock
\* issues no hwclock command in live mode.
C25_SameClockOption ==
    LET exp == ExpectedClockOption
    IN  /\ \A i \in SetClockCmds :
              sysLog[i].what \in { "hwclock " \o m \o " " \o exp :
                                    m \in {"--hctosys", "--adjust", "--noadjfile"} }
        /\ \A i \in SaveClockCmds : cmds[i].name = exp
        /\ Truthy(options["live"]) => SaveClockCmds = {}
        /\ (sysPc = "set_system_language" /\ options["lxc_guest"] = S("no"))
              => \E i \in SetClockCmds :
                    sysLog[i].what = "hwclock --hctosys " \o exp
        /\ (stopPc = "disable_swap" /\ options["lxc_guest"] = S("no")
               /\ ~Truthy(options["live"]))
              => Cardinality(SaveClockCmds) = 1

\* The clock was set and saved with clock=utc in the config file, and both
\* commands were given --localtime.
C25_SetAndSavedLowercaseUtc ==
    /\ options["clock"] = S("utc")
    /\ sysPc = "set_system_language"
    /\ stopPc = "disable_swap"
    /\ \E i \in SetClockCmds : sysLog[i].what = "hwclock --hctosys --localtime"
    /\ \E i \in SaveClockCmds : cmds[i].name = "--localtime"

IsHwclock(e, mode) ==
    /\ e.kind = "cmd"
    /\ e.what \in { "hwclock " \o mode \o " " \o o : o \in {"--utc", "--localtime"} }

\* C26: when the touch of /etc/adjtime fails on a read-only filesystem
\* (errno 30) the adjustment runs with --noadjfile and set_clock goes on to
\* hwclock --hctosys without an exception; when the touch succeeds on an
\* empty (or new) file the file is written before hwclock --adjust.
C26_ReadOnlyTouchFallsBack ==
    \A i \in DOMAIN sysLog :
       sysLog[i].kind = "touch"
          => /\ sysLog[i].rc = 30
                  => /\ sysPc = "set_system_language"
                     /\ \E j \in DOMAIN sysLog :
                           /\ j > i
                           /\ IsHwclock(sysLog[j], "--noadjfile")
                           /\ \E k \in DOMAIN sysLog :
                                  k > j /\ IsHwclock(sysLog[k], "--hctosys")
                     /\ \A j \in DOMAIN sysLog :
                           sysLog[j].kind # "raise" /\ sysLog[j] # Run("sulogin", 0)
             /\ (sysLog[i].rc = 0 /\ sysLog[i].what \in {"absent", "empty"})
                  => /\ sysLog[i + 1] = Ev("write", "/etc/adjtime", 0)
                     /\ IsHwclock(sysLog[i + 2], "--adjust")


-----------------------------------------------------------------------------
(* Properties of an unreadable config file (checked under SpecConfig).     *)

\* C27: a config file that exists and cannot be read is taken for an empty
\* one: the options are resolved from the defaults and the kernel command
\* line, and no exception ends the process.
C27_UnreadableConfigTreatedAsEmpty ==
    (cfgPc # "start" /\ cfgFile.exists /\ ~cfgFile.readable)
       => /\ cfgPc = "resolved"
          /\ options = ConfigOptions([lines |-> <<>>, readable |-> TRUE,
                                      exists |-> TRUE],
                                     cmdline, forcefsckFile, livemedia)


-----------------------------------------------------------------------------
(* Properties of the unmount loop of stop_system (checked under SpecStop). *)

\* The commands of the unmount loop.
IsLoopCmd(c) == c.cmd \in {"umount", "fuser -k -9 -m", "sleep", "umount -f -r"}

LoopCmds == SelectSeq(cmds, IsLoopCmd)

\* C28: the loop issues one plain umount per selected entry, in the order
\* of the entries; a failed plain umount is followed at once by fuser -k,
\* the sleep and umount -f -r of the same mountpoint, a successful one by
\* none of them; and whatever the forced unmount returns the next entry is
\* processed, so that the finished loop has attempted every entry.
C28_KillAndForceIffPlainFailed ==
    LET lc == LoopCmds
        plain == { i \in DOMAIN lc : lc[i].cmd = "umount" }
    IN  /\ Cardinality(plain) = umountIdx
        /\ UmountOrder = [i \in 1..umountIdx |-> fsEntries[i].mp]
        /\ LoopFinished => Len(UmountOrder) = Len(fsEntries)
        /\ lc # <<>> => lc[1].cmd = "umount"
        /\ \A i \in DOMAIN lc :
              /\ (lc[i].cmd = "umount" /\ lc[i].rc # 0)
                    => /\ Len(lc) >= i + 3
                       /\ lc[i + 1] = Cmd("fuser -k -9 -m", "", lc[i].path, 0)
                       /\ lc[i + 2].cmd = "sleep"
                       /\ lc[i + 3].cmd = "umount -f -r"
                       /\ lc[i + 3].path = lc[i].path
              /\ (lc[i].cmd = "umount" /\ lc[i].rc = 0 /\ i < Len(lc))
                    => lc[i + 1].cmd = "umount"
              /\ (lc[i].cmd = "umount -f -r" /\ i < Len(lc))
                    => lc[i + 1].cmd = "umount"
              /\ lc[i].cmd = "fuser -k -9 -m"
                    => lc[i - 1].cmd = "umount" /\ lc[i - 1].rc # 0

\* Two entries were selected, the plain and the forced unmount of the first
\* failed, and the second was unmounted by its plain unmount.
C28_ForcedFailedNextProcessed ==
    /\ LoopFinished
    /\ Len(fsEntries) = 2
    /\ LET lc == LoopCmds
       IN  /\ Len(lc) = 5
           /\ lc[1].rc # 0
           /\ lc[4].cmd = "umount -f -r"
           /\ lc[4].rc # 0
           /\ lc[5].cmd = "umount"
           /\ lc[5].rc = 0


-----------------------------------------------------------------------------
(* Properties of the root check and of the force-check sentinel (checked   *)
(* under SpecSysinit).                                                     *)

RootRemount == Run("mount -n -o remount,ro /", 0)

NoRootEntryWarning == Ev("warn", "fstab has no entry for the root filesystem", 0)

\* C29: once check_root_filesystem has run, fsck was run on the root exactly
\* when the process is no guest, live is off, fstab has an entry for / and
\* either forcefsck is set or the entry has a passno other than 0; the
\* event before fsck is the remount of the root read-only with -n; and with
\* no entry for / the procedure leaves the warning and nothing else.
C29_RootCheckedIffWanted ==
    LET seg  == StageSegment("check_root_filesystem")
        runs == { i \in DOMAIN seg : IsRootFsck(seg[i]) }
        wanted == /\ options["lxc_guest"] = S("no")
                  /\ ~Truthy(options["live"])
                  /\ fstabRoot # "absent"
                  /\ \/ Truthy(options["forcefsck"])
                     \/ fstabRoot \notin {"nopassno", "0"}
    IN  /\ sysPc \notin {"greet", "check_root_filesystem"}
              => (runs # {} <=> wanted)
        /\ \A i \in runs : i > 1 /\ seg[i - 1] = RootRemount
        /\ \A i \in DOMAIN sysLog :
              IsRootFsck(sysLog[i]) => sysLog[i] \in Range(seg)
        /\ (seg # <<>> /\ fstabRoot = "absent" /\ ~Truthy(options["live"]))
              => seg = << Stage("check_root_filesystem"), NoRootEntryWarning >>
        /\ (sysPc \notin {"greet", "check_root_filesystem"}
               /\ options["lxc_guest"] = S("no"))
              => seg # <<>>

\* With passno 0 the forced-check flag alone made fsck run on the root,
\* after the remount.
C29_ForcedCheckWithPassnoZero ==
    LET seg == StageSegment("check_root_filesystem")
    IN  /\ fstabRoot = "0"
        /\ Len(seg) >= 3
        /\ seg[2] = RootRemount
        /\ seg[3] = Run("fsck -C -y -f /", 0)
        /\ sysPc = "done"

ForcedAllFsckRan ==
    \E i \in DOMAIN sysLog :
       sysLog[i].kind = "cmd" /\ sysLog[i].what = "fsck -C -R -A -a -f"

\* C30: /forcefsck changes in no step but check_filesystems in forced mode,
\* the step that runs fsck -C -R -A -a -f, and is gone after that step for
\* every exit status; until then, through the normal check and the root
\* check with its forced reboot, it stays as it was.
C30_SentinelRemovedOnlyByForcedCheck ==
    /\ [][forcefsckFile' # forcefsckFile
            => /\ sysPc = "check_filesystems"
               /\ Truthy(options["forcefsck"])
               /\ ~ForcedAllFsckRan
               /\ ForcedAllFsckRan'
               /\ forcefsckFile' = FALSE]_vars
    /\ [](ForcedAllFsckRan => ~forcefsckFile)
    /\ [](~ForcedAllFsckRan => (forcefsckFile <=> Truthy(options["forcefsck"])))

\* The forced check of the other filesystems failed and the sentinel is
\* gone; before it the forced root check had gone through.
C30_RemovedAfterFailedCheck ==
    /\ ~forcefsckFile
    /\ \E i \in DOMAIN sysLog : sysLog[i] = Run("fsck -C -R -A -a -f", 4)
    /\ \E i \in DOMAIN sysLog : sysLog[i] = Run("fsck -C -y -f /", 0)
    /\ sysBlocked = "sulogin"


-----------------------------------------------------------------------------
(* Properties of the splash at the end of start_services (checked under    *)
(* SpecDefault).                                                           *)

SplashQuit == \E i \in DOMAIN mainLog : mainLog[i] = Ev("splash", "quit", 0)

XorgOff ==
    \E i \in DOMAIN mainLog : mainLog[i] = Ev("get_kernel_option", "xorg=off", 0)

\* start_services went through its services part outside safe mode.
ServicesPartDone ==
    /\ ~Truthy(options["safe"])
    /\ \E i \in DOMAIN mainLog : mainLog[i].kind = "get_kernel_option"
    /\ mainPc \in {"flush", "done"}

\* C31 as claimed: the splash is torn down exactly when xorg=off was given
\* or no head-start service is configured.
C31_SplashQuitIffNoHeadStartConfigured ==
    ServicesPartDone
       => (SplashQuit <=> (XorgOff \/ ~Truthy(options["head_start"])))

\* C31 amended: outside safe mode the splash is torn down exactly when
\* xorg=off was given or no head-start service was readied, which is when
\* none is configured or the configured one is not among the candidate
\* services; in safe mode the splash is never torn down by start_services.
C31_SplashQuitIffNoHeadStartRun ==
    /\ ServicesPartDone
          => (SplashQuit <=>
                 \/ XorgOff
                 \/ ~Truthy(options["head_start"])
                 \/ options["head_start"].v \notin
                       ((svcEnabled \cup svcConditional) \cap svcBus)
                          \ {"rsyslog", "NetworkManager"})
    /\ Truthy(options["safe"]) => ~SplashQuit

\* kdm is configured for the head start but is not a service of the bus:
\* the splash was torn down without xorg=off.
C31_ConfiguredHeadStartNotRun ==
    /\ ServicesPartDone
    /\ options["head_start"] = S("kdm")
    /\ "kdm" \notin svcBus
    /\ ~XorgOff
    /\ SplashQuit


-----------------------------------------------------------------------------
(* Properties of mount_root_filesystem (checked under SpecMtab).           *)

AllMountpoints == {P_root, P_data, P_nested, P_mnt, P_datax, P_mntn, P_mntt, P_mntx}

MtabUpdateOf(mp) == Run("mount -f -o remount " \o PathText(mp), 0)

\* The lines of /proc/mounts the program reads: load_file keeps every line
\* but those that start with "#".
LiveLines == { i \in DOMAIN procMounts : procMounts[i].dev # "#sshfs" }

-----------------------------------------------------------------------------
(* Properties of the state order of the cgroup bootstrap (checked under    *)
(* SpecCgroup).                                                            *)

\* C33: /proc/cgroups is read and controllers are mounted only in a call
\* whose three guards passed (no cgroup mount line in fstab, /proc/cgroups a
\* file, /sys/fs/cgroup a directory) and only while /sys/fs/cgroup is
\* mounted; and a call that found /sys/fs/cgroup a mountpoint issues no
\* mount for it.
C33_DiscoveryOnlyAfterGuardsOnMountedRoot ==
    /\ cgPc \in {"mount_controllers", "finished"}
          => /\ ~HasCgroupLine(cgEnv.fstab)
             /\ cgEnv.kernel
             /\ cgEnv.sysfs
             /\ CgRoot \in cgMounted
    /\ \A i \in DOMAIN cgLog :
          (cgLog[i].kind = "mount" /\ cgLog[i].what = CgRoot /\ cgLog[i].run = cgRun)
             => CgRoot \notin cgBefore


-----------------------------------------------------------------------------
(* Properties of the images and the command line of kexec --load (checked  *)
(* under SpecKexecLoad).                                                   *)

\* The arguments of the kexec --load that was issued.
LoadArgs == { cmds[i].name : i \in { j \in DOMAIN cmds : cmds[j].cmd = "kexec --load" } }

RunningVer == IF bootDir[3] = "" THEN "3.10.0" ELSE "3.10.0-pae"

Suffixed(path) == IF bootDir[3] = "" THEN path ELSE path \o "-pae"

\* The command-line arguments the claim asks for.
C34_CmdlineArgs ==
    IF kexecConf[6] \notin {"None", ""} THEN " --command-line " \o kexecConf[6]
    ELSE IF kexecConf[5] \notin {"None", ""}
    THEN " --reuse-cmdline --append " \o kexecConf[5]
    ELSE " --reuse-cmdline"

NoImageConfigured == kexecConf[3] = "None" /\ kexecConf[4] = "None"

\* C34 as claimed: with no image configured, both images are the latest
\* links (with the suffix) when the links exist, and both are the images of
\* the running version otherwise.
C34_ImagesResolvedAsPair ==
    (mainPc # "start" /\ NoImageConfigured)
       => LoadArgs =
            { (IF bootDir[1] /\ bootDir[2]
               THEN Suffixed("/boot/latest-kernel") \o " --initrd "
                       \o Suffixed("/boot/latest-initramfs")
               ELSE "/boot/kernel-" \o RunningVer \o " --initrd "
                       \o "/boot/initramfs-" \o RunningVer)
              \o C34_CmdlineArgs }

\* C34 amended: with no image configured, the kernel is the latest-kernel
\* link (with the suffix) when that link exists and the kernel of the running
\* version otherwise, and the initrd is chosen in the same way by the
\* latest-initramfs link alone, so that with one link missing a latest
\* image is paired with a named one; a non-empty override takes precedence
\* over a non-empty append string, and with neither the command line is
\* reused.
C34_ImagesResolvedEachByItsLink ==
    (mainPc # "start" /\ NoImageConfigured)
       => LoadArgs =
            { (IF bootDir[1] THEN Suffixed("/boot/latest-kernel")
               ELSE "/boot/kernel-" \o RunningVer)
              \o " --initrd "
              \o (IF bootDir[2] THEN Suffixed("/boot/latest-initramfs")
                  ELSE "/boot/initramfs-" \o RunningVer)
              \o C34_CmdlineArgs }

\* Only the kernel link exists on a pae kernel, and both an override and an
\* append string are configured.
C34_KernelLinkOnly ==
    /\ mainPc = "stop_system"
    /\ NoImageConfigured
    /\ bootDir = << TRUE, FALSE, "pae" >>
    /\ kexecConf[5] = "quiet"
    /\ kexecConf[6] = "root=/dev/sda1"
    /\ LoadArgs = { "/boot/latest-kernel-pae --initrd /boot/initramfs-3.10.0-pae"
                      \o " --command-line root=/dev/sda1" }


-----------------------------------------------------------------------------
(* The guest guards: skip_for_lxc_guests against the test in stop_system.   *)

\* stop_udev, a procedure under skip_for_lxc_guests, ran its body.
UdevStopCmd(c) == c.cmd = "start-stop-daemon --stop udevd"

UdevStopped == \E i \in DOMAIN cmds : UdevStopCmd(cmds[i])

\* A command of the remount ladder of stop_system.
IsRemountCmd(c) == c.cmd \in {"mount -n -o remount,ro", "umount -n -r"}

RootRemountedReadOnly == \E i \in DOMAIN cmds : IsRemountCmd(cmds[i])

\* C35: once stop_system is over, the guest-skippable procedures were
\* skipped if and only if the unmount loop and the remount ladder were
\* skipped: no run skips stop_udev and still remounts root read-only.
C35_GuestGuardsAgree ==
    stopPc = "done" => (~UdevStopped <=> ~RootRemountedReadOnly)

\* The run the two guards disagree on: lxc_guest given as a bare flag, the
\* guest-skippable procedures skipped, root remounted all the same.
C35_BareFlagSkipsStagesStillRemounts ==
    /\ stopPc = "done"
    /\ Get(options, "lxc_guest") = PyTrue
    /\ ~UdevStopped
    /\ RootRemountedReadOnly


-----------------------------------------------------------------------------
(* set_disk_parameters: the hdparm calls.                                   *)

\* How often hdparm was run with the flags for the device name.
HdparmCalls(flags, name) ==
    Cardinality({ i \in DOMAIN sysLog :
                    sysLog[i] = Run("hdparm " \o flags \o " /dev/"
                                             \o PathText(name), 0) })

\* set_disk_parameters is over, outside safe and guest mode, and
\* /etc/conf.d/hdparm has entries.
DiskParametersSet ==
    /\ sysPc \in {"set_clock", "exited"}
    /\ ~SkippedForGuests(options)
    /\ ~Truthy(Get(options, "safe"))
    /\ hdparmFile[1]
    /\ DOMAIN hdparmFile[2] # {}

\* C36: outside safe and guest mode and with entries in the hdparm config,
\* set_disk_parameters runs hdparm once for every key other than all with
\* the flags of the key, and, with an all entry, once with the all flags for
\* every three-letter sd name of /sys/block without an entry of its own, and
\* it raises no error.
C36_HdparmOncePerDevice ==
    DiskParametersSet =>
        LET conf == hdparmFile[2]
        IN  /\ ~Raised(sysLog)
            /\ \A k \in DOMAIN conf \ {K_all} : HdparmCalls(conf[k], k) = 1
            /\ K_all \in DOMAIN conf =>
                 \A n \in sysBlock :
                    (Len(n) = 3 /\ n[1] = "s" /\ n[2] = "d"
                       /\ n \notin DOMAIN conf)
                      => HdparmCalls(conf[K_all], n) = 1

\* The run that ends in the rescue shell: an entry for sda alone, no hdparm
\* call, a ValueError.
C36_EntryForSdaRaises ==
    /\ DiskParametersSet
    /\ DOMAIN hdparmFile[2] = { K_sda }
    /\ sysPc = "exited"
    /\ Raised(sysLog)
    /\ \A i \in DOMAIN sysLog : sysLog[i].what # "hdparm ['-S120'] /dev/sda"


-----------------------------------------------------------------------------
(* sysinit: the order of the stages.                                        *)

\* The stages of sysinit in the order main() calls them.
SysinitOrder ==
    << Stage("check_root_filesystem"), Stage("mount_root_filesystem"),
       Stage("set_hostname"), Stage("autoload_modules"),
       Stage("check_filesystems"), Stage("mount_local_filesystems"),
       Stage("enable_swap"), Stage("set_disk_parameters"), Stage("set_clock"),
       Stage("set_system_language"), Stage("start_udev") >>

OrderedStageNames ==
    { "check_root_filesystem", "mount_root_filesystem", "set_hostname",
      "autoload_modules", "check_filesystems", "mount_local_filesystems",
      "enable_swap", "set_disk_parameters", "set_clock",
      "set_system_language", "start_udev" }

IsOrderedStage(e) == e.kind = "stage" /\ e.what \in OrderedStageNames

\* The stages of SysinitOrder that ran, in the order they ran.
StagesRun == SelectSeq(sysLog, IsOrderedStage)

\* An event that stands for a write of a persisted file: a write itself, or
\* one of the stages that write (the hostname override; the language, keymap
\* and locale files; the accounting records).
WritesFile(e) ==
    \/ e.kind = "write"
    \/ e \in { Stage("set_hostname"), Stage("set_system_language"),
               Stage("accounting") }

RemountRwAttempt(e) ==
    e.kind = "cmd" /\ e.what = "mount -n -o remount,rw /"

\* C37: outside guest mode the stages of sysinit run one after another in
\* the order root check, read-write remount of root, hostname, module
\* autoload, check of all filesystems, local mounts, swap, disk parameters,
\* clock, system language, udev start (what ran so far is a beginning of
\* that order), and no persisted file is written before the read-write
\* remount of root was attempted.
C37_StagesInFixedOrder ==
    ~SkippedForGuests(options) =>
        LET ran      == StagesRun
            order    == SysinitOrder
            attempts == { j \in DOMAIN sysLog : RemountRwAttempt(sysLog[j]) }
        IN  /\ Len(ran) <= Len(order)
            /\ \A i \in DOMAIN ran : ran[i] = order[i]
            /\ \A i \in DOMAIN sysLog :
                  WritesFile(sysLog[i]) => \E j \in attempts : j < i

\* A sysinit outside guest mode that went through every stage.
C37_AllStagesRun ==
    /\ ~SkippedForGuests(options)
    /\ sysPc = "done"
    /\ StagesRun = SysinitOrder
    /\ \E i \in DOMAIN sysLog : sysLog[i] = Ev("write", "/etc/mudur/language", 0)

====
